---- MODULE Spec2Model ----
(***************************************************************************)
(* A model of the OpenAPI -> TypeScript client generator: the parser       *)
(* (OpenAPIParser), the public entry point (generateClientArtifacts,       *)
(* normalizeSpec), and the example generator's identifier sanitizer.       *)
(*                                                                         *)
(* Strings the code inspects character by character (paths, operation ids, *)
(* raw names, $ref values) are sequences of one-character strings; strings *)
(* the code only compares or copies are TLA+ strings.  An optional value   *)
(* (a JavaScript value that may be undefined) is a sequence of length 0    *)
(* (undefined) or 1 (the value).                                           *)
(***************************************************************************)
EXTENDS Integers, Sequences, FiniteSets, TLC

VARIABLES
    pc,          \* position of the caller in the scenario being run
    spec,        \* OpenAPIParser.spec: the OpenAPI document held by the parser
    schemas,     \* OpenAPIParser.schemas: the Map name -> schema, as a set of entries
    endpoints,   \* the array returned by the last extractEndpoints() call
    resolved,    \* the outcome of the last resolveSchema() call
    previous,    \* the endpoints an earlier generation returned for the same content
    reordering,  \* how the keys of the current document differ from that earlier one
    synthesized, \* the outcome of the last type synthesis of the generator
    rawName,     \* the name handed to sanitizeMethodName
    methodName,  \* the method name sanitizeMethodName returned
    specInput,   \* the specInput argument of generateClientArtifacts
    options,     \* the options argument of generateClientArtifacts
    files,       \* the file system: what is stored under the path specInput names
    normalized,  \* the outcome of the last normalizeSpec() call
    artifacts,   \* the outcome of the last generateClientArtifacts() call
    cliArgs,     \* the arguments of the CLI's generateAndWrite
    writes,      \* the writeFileSync calls of the CLI so far, in order
    exitCode,    \* the status the CLI process exited with, if it has exited
    apiClient,   \* the fields of a generated client object
    call,        \* the endpoint call in flight on that client, and its result
    events,      \* the fetch calls, timers and interceptor calls so far, in order
    requests,    \* the HTTP front end: per request, the closure of its handler
    traffic      \* per request, what its client and the spec host have delivered

parserVars == <<spec, schemas, endpoints, resolved>>
rerunVars == <<previous, reordering>>
generatorVars == <<synthesized>>
sanitizerVars == <<rawName, methodName>>
\* the variables a scenario of the parser leaves alone, and the other way round
entryVars == <<specInput, options, files, normalized, artifacts>>
cliVars == <<cliArgs, writes, exitCode>>
clientVars == <<apiClient, call, events>>
serverVars == <<requests, traffic>>
\* the programs around the library: the CLI, a generated client, the server
hostVars == <<cliVars, clientVars, serverVars>>
outsideParser == <<sanitizerVars, entryVars, hostVars>>
insideParser == <<parserVars, rerunVars, generatorVars>>
vars == <<pc, insideParser, outsideParser>>

(***************************************************************************)
(* JavaScript values                                                       *)
(***************************************************************************)
None == <<>>
Some(v) == <<v>>
IsDefined(opt) == opt # <<>>
\* a || b for an optional a
OrElse(opt, default) == IF opt = <<>> THEN default ELSE opt[1]

\* the elements of an array, as a set
Range(seq) == {seq[i] : i \in DOMAIN seq}

\* Array.prototype.join('') of an array of strings
RECURSIVE Flatten(_)
Flatten(seqs) == IF seqs = <<>> THEN <<>> ELSE Head(seqs) \o Flatten(Tail(seqs))

(***************************************************************************)
(* Characters                                                              *)
(***************************************************************************)
LowerLetters == <<"a","b","c","d","e","f","g","h","i","j","k","l","m",
                  "n","o","p","q","r","s","t","u","v","w","x","y","z">>
UpperLetters == <<"A","B","C","D","E","F","G","H","I","J","K","L","M",
                  "N","O","P","Q","R","S","T","U","V","W","X","Y","Z">>
DigitChars == {"0","1","2","3","4","5","6","7","8","9"}
LowerSet == {LowerLetters[i] : i \in DOMAIN LowerLetters}
UpperSet == {UpperLetters[i] : i \in DOMAIN UpperLetters}

LetterIndex(letters, c) == CHOOSE i \in DOMAIN letters : letters[i] = c
\* String.prototype.toUpperCase / toLowerCase on one ASCII character
ToUpperChar(c) == IF c \in LowerSet THEN UpperLetters[LetterIndex(LowerLetters, c)] ELSE c
ToLowerChar(c) == IF c \in UpperSet THEN LowerLetters[LetterIndex(UpperLetters, c)] ELSE c
ToUpperCase(s) == [i \in DOMAIN s |-> ToUpperChar(s[i])]
ToLowerCase(s) == [i \in DOMAIN s |-> ToLowerChar(s[i])]

\* the characters of the five method names
MethodChars(method) ==
    CASE method = "get"    -> <<"g","e","t">>
      [] method = "post"   -> <<"p","o","s","t">>
      [] method = "put"    -> <<"p","u","t">>
      [] method = "patch"  -> <<"p","a","t","c","h">>
      [] method = "delete" -> <<"d","e","l","e","t","e">>

\* String.prototype.split('/'): the pieces between the separators, empty ones kept
RECURSIVE SplitSlash(_)
SplitSlash(s) ==
    IF \A i \in DOMAIN s : s[i] # "/" THEN <<s>>
    ELSE LET k == CHOOSE i \in DOMAIN s :
                      s[i] = "/" /\ \A j \in 1..(i - 1) : s[j] # "/"
         IN  <<SubSeq(s, 1, k - 1)>> \o SplitSlash(SubSeq(s, k + 1, Len(s)))

(***************************************************************************)
(* OpenAPIParser                                                           *)
(*                                                                         *)
(* A JavaScript object whose key order matters (spec.paths, a path item)   *)
(* is the sequence of its entries [key, value] in insertion order, which   *)
(* is the order Object.entries() yields for non-numeric string keys.       *)
(***************************************************************************)
HasKey(obj, key) == \E i \in DOMAIN obj : obj[i].key = key
\* obj[key]: undefined when the key is absent
Get(obj, key) ==
    IF HasKey(obj, key)
    THEN Some(obj[CHOOSE i \in DOMAIN obj : obj[i].key = key].value)
    ELSE None

\* the methods array with a verb left out
METHODS_WithoutDelete == <<"get", "post", "put", "patch">>

\* the methods array of extractEndpoints
METHODS == <<"get", "post", "put", "patch", "delete">>

\* generateOperationId with the two map() calls in the other order: the first
\* character is upper-cased while the braces are still there
GenerateOperationId_CapitalizeFirst(method, path) ==
    LET Truthy(part)  == part # <<>>
        NotBrace(c)   == c \notin {"{", "}"}
        nonEmpty      == SelectSeq(SplitSlash(path), Truthy)
        capitalized   == [i \in DOMAIN nonEmpty |->
                            <<ToUpperChar(nonEmpty[i][1])>> \o Tail(nonEmpty[i])]
        pathParts     == [i \in DOMAIN capitalized |-> SelectSeq(capitalized[i], NotBrace)]
    IN  ToLowerCase(MethodChars(method)) \o Flatten(pathParts)

\* OpenAPIParser.generateOperationId
GenerateOperationId(method, path) ==
    LET Truthy(part)  == part # <<>>
        NotBrace(c)   == c \notin {"{", "}"}
        nonEmpty      == SelectSeq(SplitSlash(path), Truthy)
        unbraced      == [i \in DOMAIN nonEmpty |-> SelectSeq(nonEmpty[i], NotBrace)]
        \* part.charAt(0).toUpperCase() + part.slice(1)
        pathParts     == [i \in DOMAIN unbraced |->
                            IF unbraced[i] = <<>> THEN <<>>
                            ELSE <<ToUpperChar(unbraced[i][1])>> \o Tail(unbraced[i])]
    IN  ToLowerCase(MethodChars(method)) \o Flatten(pathParts)

\* the operationId chosen in extractEndpoints: operation.operationId || generated
OperationIdFor(operation, method, path) ==
    IF IsDefined(operation.operationId) /\ operation.operationId[1] # <<>>
    THEN operation.operationId[1]
    ELSE GenerateOperationId(method, path)

\* allParameters of extractEndpoints: the two arrays spread one after the other
AllParameters(pathItem, operation) ==
    OrElse(Get(pathItem, "parameters"), <<>>) \o OrElse(operation.parameters, <<>>)

\* the Endpoint object pushed for one (path, method, operation)
MakeEndpoint(method, path, pathItem, operation) ==
    [method      |-> method,
     path        |-> path,
     operationId |-> OperationIdFor(operation, method, path),
     summary     |-> operation.summary,
     parameters  |-> AllParameters(pathItem, operation),
     requestBody |-> operation.requestBody]

\* the inner loop written over the keys of the path item instead of the
\* methods array: the methods come out in the item's own key order
EndpointsOfPath_ByItemKeys(path, pathItem) ==
    LET IsMethod(entry) == \E k \in DOMAIN METHODS : METHODS[k] = entry.key
        present == SelectSeq(pathItem, IsMethod)
    IN  [i \in DOMAIN present |->
            MakeEndpoint(present[i].key, path, pathItem, present[i].value)]

\* the inner loop of extractEndpoints: the endpoints of one path, in METHODS order
EndpointsOfPath(path, pathItem) ==
    LET upTo[k \in 0..Len(METHODS)] ==
            IF k = 0 THEN <<>>
            ELSE LET operation == Get(pathItem, METHODS[k])
                 IN  IF ~IsDefined(operation) THEN upTo[k - 1]
                     ELSE Append(upTo[k - 1],
                                 MakeEndpoint(METHODS[k], path, pathItem, operation[1]))
    IN  upTo[Len(METHODS)]

\* OpenAPIParser.extractEndpoints: the outer loop over Object.entries(spec.paths)
ExtractEndpoints(s) ==
    Flatten([i \in DOMAIN s.paths |-> EndpointsOfPath(s.paths[i].key, s.paths[i].value)])

\* Object.entries(this.spec.paths) throws a TypeError when paths is undefined
ExtractEndpointsThrows(s) == ~s.hasPaths

\* Map.prototype.set: the value of an existing key is replaced in place, a new
\* key is appended
MapSet(map, key, value) ==
    IF HasKey(map, key)
    THEN [i \in DOMAIN map |-> IF map[i].key = key THEN [key |-> key, value |-> value] ELSE map[i]]
    ELSE Append(map, [key |-> key, value |-> value])

\* OpenAPIParser.loadSchemas, run by the constructor: the Map of
\* components.schemas, empty when the document has none
LoadSchemas(s) ==
    IF IsDefined(s.components) /\ IsDefined(s.components[1].schemas)
    THEN LET entries == s.components[1].schemas[1]
             upTo[k \in 0..Len(entries)] ==
                 IF k = 0 THEN <<>>
                 ELSE MapSet(upTo[k - 1], entries[k].key, entries[k].value)
         IN  upTo[Len(entries)]
    ELSE <<>>

\* the literal '#/components/schemas/', one element of a $ref string
RefPrefix == "#/components/schemas/"

\* String.prototype.replace(pattern, ''): the first occurrence is removed
ReplaceFirst(str, pattern) ==
    IF \A i \in DOMAIN str : str[i] # pattern THEN str
    ELSE LET k == CHOOSE i \in DOMAIN str :
                      str[i] = pattern /\ \A j \in 1..(i - 1) : str[j] # pattern
         IN  SubSeq(str, 1, k - 1) \o SubSeq(str, k + 1, Len(str))

\* the outcome of a resolveSchema call: the value returned, the number of
\* Map lookups made, and whether the call threw
Returned(value, lookups) == [value |-> value, lookups |-> lookups, threw |-> FALSE]
Thrown(lookups) == [value |-> None, lookups |-> lookups, threw |-> TRUE]

\* resolveSchema that rejects a reference it cannot find
ResolveSchema_ThrowOnMissing(table, schema) ==
    IF IsDefined(schema.ref)
    THEN LET found == Get(table, ReplaceFirst(schema.ref[1], RefPrefix))
         IN  IF IsDefined(found) THEN Returned(found[1], 1) ELSE Thrown(1)
    ELSE Returned(schema, 0)

\* resolveSchema that resolves the definition it found once more
ResolveSchema_FollowAlias(table, schema) ==
    IF IsDefined(schema.ref)
    THEN LET first == OrElse(Get(table, ReplaceFirst(schema.ref[1], RefPrefix)), schema)
         IN  IF IsDefined(first.ref)
             THEN Returned(OrElse(Get(table, ReplaceFirst(first.ref[1], RefPrefix)), first), 2)
             ELSE Returned(first, 1)
    ELSE Returned(schema, 0)

\* OpenAPIParser.resolveSchema
ResolveSchema(table, schema) ==
    IF IsDefined(schema.ref)
    THEN LET ref        == schema.ref[1]
             schemaName == ReplaceFirst(ref, RefPrefix)
         IN  Returned(OrElse(Get(table, schemaName), schema), 1)
    ELSE Returned(schema, 0)

(***************************************************************************)
(* Building blocks of the input documents                                  *)
(***************************************************************************)
Entry(key, value) == [key |-> key, value |-> value]

Param(name, in, required) ==
    [name |-> name, in |-> in, required |-> required,
     schema |-> [type |-> "string", default |-> None]]

Operation(operationId, parameters) ==
    [operationId |-> operationId,
     summary     |-> None,
     parameters  |-> parameters,
     requestBody |-> None]

Document(paths) ==
    [info       |-> [title |-> <<"A", "P", "I">>],
     servers    |-> <<>>,
     hasPaths   |-> TRUE,
     paths      |-> paths,
     components |-> None]

\* a document without the key `paths`: spec.paths is undefined
WithoutPaths == [Document(<<>>) EXCEPT !.hasPaths = FALSE]

\* the (name, in) pair that identifies a parameter
ParamKey(p) == <<p.name, p.in>>
UniqueKeys(params) ==
    \A i, j \in DOMAIN params : ParamKey(params[i]) = ParamKey(params[j]) => i = j

\* all sequences over S of length at most n
SeqsUpTo(S, n) == UNION {[1..k -> S] : k \in 0..n}

(***************************************************************************)
(* The parser's operations as steps of a caller                            *)
(***************************************************************************)

\* no earlier generation to compare with
NoRerun == previous = <<>> /\ reordering = "none"

\* the generator has synthesized nothing
NoSynthesis == synthesized = None

\* no name is being sanitized
SanitizerIdle == rawName = <<>> /\ methodName = <<>>

\* the file system when no file is read
NoFile == [exists |-> FALSE, validJson |-> FALSE, content |-> Document(<<>>)]

\* generateClientArtifacts is not being called
EntryIdle ==
    /\ specInput = None
    /\ options = None
    /\ files = NoFile
    /\ normalized = None
    /\ artifacts = None

\* nothing outside the parser is in use
\* the CLI is not running
CliIdle == cliArgs = None /\ writes = <<>> /\ exitCode = None

\* no generated client has been constructed
ClientIdle == apiClient = None /\ call = None /\ events = <<>>

\* none of the programs around the library is running
ServerIdle == requests = <<>> /\ traffic = <<>>

HostsIdle == CliIdle /\ ClientIdle /\ ServerIdle

OutsideParserIdle == SanitizerIdle /\ EntryIdle /\ HostsIdle

\* no parser has been built
InsideParserIdle ==
    /\ spec = Document(<<>>)
    /\ schemas = <<>>
    /\ endpoints = <<>>
    /\ resolved = None
    /\ NoRerun
    /\ NoSynthesis

\* a call of parser.extractEndpoints()
CallExtractEndpoints ==
    /\ pc = "ready"
    /\ endpoints' = ExtractEndpoints(spec)
    /\ pc' = "extracted"
    /\ UNCHANGED <<spec, schemas, resolved, rerunVars, generatorVars, outsideParser>>

(***************************************************************************)
(* Parameter merging: documents with one path whose item carries           *)
(* path-level parameters and one operation with its own parameters         *)
(***************************************************************************)
MaxParams == 2

MergeParamPool ==
    {Param(n, i, r) : n \in {<<"i", "d">>, <<"q">>}, i \in {"query", "path"}, r \in BOOLEAN}

\* a parameters array (or undefined) without duplicated (name, in) pairs
MergeParamLists ==
    {None} \cup {Some(ps) : ps \in {l \in SeqsUpTo(MergeParamPool, MaxParams) : UniqueKeys(l)}}

MergeDocument(pathLevel, opLevel) ==
    Document(<<Entry(<<"/", "a">>,
                     (IF IsDefined(pathLevel)
                      THEN <<Entry("parameters", pathLevel[1])>> ELSE <<>>)
                     \o <<Entry("get", Operation(None, opLevel))>>)>>)

MergeInit ==
    /\ pc = "ready"
    /\ \E pathLevel \in MergeParamLists, opLevel \in MergeParamLists :
           spec = MergeDocument(pathLevel, opLevel)
    /\ schemas = LoadSchemas(spec)
    /\ endpoints = <<>>
    /\ resolved = None
    /\ NoRerun
    /\ NoSynthesis
    /\ OutsideParserIdle

MergeNext == CallExtractEndpoints

SpecMerge == MergeInit /\ [][MergeNext]_vars

\* C1: after extraction, whenever a path-level and an operation-level parameter
\* of one operation share their (name, in) pair, the endpoint has exactly one
\* parameter with that pair, and it is the operation-level one.
C1_MergePrecedence ==
    pc = "extracted" =>
        \A e \in DOMAIN endpoints :
            LET ep         == endpoints[e]
                pathItem   == Get(spec.paths, ep.path)[1]
                pathParams == OrElse(Get(pathItem, "parameters"), <<>>)
                opParams   == OrElse(Get(pathItem, ep.method)[1].parameters, <<>>)
            IN  \A i \in DOMAIN pathParams, j \in DOMAIN opParams :
                    ParamKey(pathParams[i]) = ParamKey(opParams[j]) =>
                        /\ Cardinality({k \in DOMAIN ep.parameters :
                               ParamKey(ep.parameters[k]) = ParamKey(opParams[j])}) = 1
                        /\ \A k \in DOMAIN ep.parameters :
                               ParamKey(ep.parameters[k]) = ParamKey(opParams[j]) =>
                                   ep.parameters[k] = opParams[j]

(***************************************************************************)
(* Operation ids: documents with one path, drawn character by character,   *)
(* and one operation whose operationId is absent, empty or declared        *)
(***************************************************************************)
MaxPathLen == 4

PathChars == {"/", "{", "}", "u", "i"}

\* the path of the documented example, GET /users/{id}/posts
UsersIdPosts ==
    <<"/","u","s","e","r","s","/","{","i","d","}","/","p","o","s","t","s">>

\* path templates: a leading slash and up to MaxPathLen more characters
OpIdPaths == {<<"/">> \o rest : rest \in SeqsUpTo(PathChars, MaxPathLen)} \cup {UsersIdPosts}

\* operation.operationId: undefined, the empty string, or a declared id
OpIdChoices == {None, Some(<<>>), Some(<<"l","i","s","t","U">>)}

OpIdInit ==
    /\ pc = "ready"
    /\ \E path \in OpIdPaths, method \in {"get", "post"}, id \in OpIdChoices :
           spec = Document(<<Entry(path, <<Entry(method, Operation(id, None))>>)>>)
    /\ schemas = LoadSchemas(spec)
    /\ endpoints = <<>>
    /\ resolved = None
    /\ NoRerun
    /\ NoSynthesis
    /\ OutsideParserIdle

OpIdNext == CallExtractEndpoints

SpecOpId == OpIdInit /\ [][OpIdNext]_vars

\* The fallback id as the claim words it, read off the path one character at
\* a time: a slash starts a segment, braces are dropped, and the first
\* character kept in a segment is upper-cased.
RECURSIVE SegmentsCapitalized(_, _)
SegmentsCapitalized(path, atSegmentStart) ==
    IF path = <<>> THEN <<>>
    ELSE IF Head(path) = "/" THEN SegmentsCapitalized(Tail(path), TRUE)
    ELSE IF Head(path) \in {"{", "}"} THEN SegmentsCapitalized(Tail(path), atSegmentStart)
    ELSE <<IF atSegmentStart THEN ToUpperChar(Head(path)) ELSE Head(path)>>
         \o SegmentsCapitalized(Tail(path), FALSE)

FallbackId(method, path) == MethodChars(method) \o SegmentsCapitalized(path, FALSE)

\* the operation an endpoint was extracted from
OperationOf(ep) == Get(Get(spec.paths, ep.path)[1], ep.method)[1]

\* C2 (as stated): an operation without operationId gets the fallback id; an
\* operation that declares an operationId keeps it unchanged.
C2_DeclaredIdKept ==
    pc = "extracted" =>
        \A e \in DOMAIN endpoints :
            LET ep == endpoints[e]
                declared == OperationOf(ep).operationId
            IN  IF IsDefined(declared)
                THEN ep.operationId = declared[1]
                ELSE ep.operationId = FallbackId(ep.method, ep.path)

\* C2 (amended): an operation whose operationId is absent or the empty string
\* gets the fallback id (GET /users/{id}/posts gives getUsersIdPosts, POST
\* gives postUsersIdPosts); an operation that declares a non-empty operationId
\* keeps it unchanged.
C2_OperationIdFallback ==
    pc = "extracted" =>
        \A e \in DOMAIN endpoints :
            LET ep == endpoints[e]
                declared == OperationOf(ep).operationId
            IN  /\ IF IsDefined(declared) /\ declared[1] # <<>>
                   THEN ep.operationId = declared[1]
                   ELSE ep.operationId = FallbackId(ep.method, ep.path)
                /\ (ep.path = UsersIdPosts /\ (~IsDefined(declared) \/ declared[1] = <<>>)) =>
                       ep.operationId =
                           MethodChars(ep.method)
                           \o <<"U","s","e","r","s","I","d","P","o","s","t","s">>

\* an operation without operationId on a path with a braced segment was extracted
C2_Witness ==
    /\ pc = "extracted"
    /\ Len(endpoints) = 1
    /\ ~IsDefined(OperationOf(endpoints[1]).operationId)
    /\ endpoints[1].path = <<"/", "u", "/", "{", "i">>
    /\ endpoints[1].operationId = <<"g", "e", "t", "U", "I">>

(***************************************************************************)
(* Extraction order: documents with up to two paths whose items hold any   *)
(* of the keys of ItemKeys, in any insertion order.  After a first         *)
(* generation the caller may generate again from the same content with two *)
(* adjacent keys exchanged, either in `paths` or inside one path item; as  *)
(* every insertion order is an initial document, invariance under one      *)
(* exchange gives invariance under every reordering.                       *)
(***************************************************************************)
MaxKeys == 2

ExtractPaths == {<<"/", "a">>, <<"/", "b">>}

\* keys of a path item: three of the five verbs, and two keys that are no verb
ItemKeys == {"get", "post", "delete", "head", "parameters"}

Distinct(seq) == \A i, j \in DOMAIN seq : seq[i] = seq[j] => i = j

\* the value stored under a key of a path item
ItemValue(key) == IF key = "parameters" THEN <<>> ELSE Operation(None, None)

\* path items: up to MaxKeys distinct keys in any order
ExtractItems ==
    {[i \in DOMAIN keys |-> Entry(keys[i], ItemValue(keys[i]))] :
        keys \in {ks \in SeqsUpTo(ItemKeys, MaxKeys) : Distinct(ks)}}

ExtractDocuments ==
    {Document([i \in DOMAIN ps |-> Entry(ps[i], items[i])]) :
        ps \in {qs \in SeqsUpTo(ExtractPaths, Cardinality(ExtractPaths)) : Distinct(qs)},
        items \in [1..Cardinality(ExtractPaths) -> ExtractItems]}

\* an object with the entries at positions i and i + 1 exchanged
SwapAdjacent(obj, i) ==
    [k \in DOMAIN obj |-> IF k = i THEN obj[i + 1] ELSE IF k = i + 1 THEN obj[i] ELSE obj[k]]

ExtractInit ==
    /\ pc = "ready"
    /\ spec \in ExtractDocuments
    /\ schemas = LoadSchemas(spec)
    /\ endpoints = <<>>
    /\ resolved = None
    /\ NoRerun
    /\ NoSynthesis
    /\ OutsideParserIdle

\* the caller builds a new parser on the same content with two keys of
\* `paths` exchanged
ReparsePathsReordered ==
    /\ pc = "extracted"
    /\ \E i \in 1..(Len(spec.paths) - 1) :
           spec' = [spec EXCEPT !.paths = SwapAdjacent(spec.paths, i)]
    /\ previous' = endpoints
    /\ reordering' = "paths"
    /\ schemas' = LoadSchemas(spec')
    /\ endpoints' = <<>>
    /\ pc' = "ready again"
    /\ UNCHANGED <<resolved, generatorVars, outsideParser>>

\* the caller builds a new parser on the same content with two keys of one
\* path item exchanged
ReparseItemReordered ==
    /\ pc = "extracted"
    /\ \E p \in DOMAIN spec.paths :
           \E i \in 1..(Len(spec.paths[p].value) - 1) :
               spec' = [spec EXCEPT !.paths[p].value = SwapAdjacent(spec.paths[p].value, i)]
    /\ previous' = endpoints
    /\ reordering' = "item"
    /\ schemas' = LoadSchemas(spec')
    /\ endpoints' = <<>>
    /\ pc' = "ready again"
    /\ UNCHANGED <<resolved, generatorVars, outsideParser>>

\* the call of parser.extractEndpoints() of the second generation
CallExtractEndpointsAgain ==
    /\ pc = "ready again"
    /\ endpoints' = ExtractEndpoints(spec)
    /\ pc' = "extracted again"
    /\ UNCHANGED <<spec, schemas, resolved, rerunVars, generatorVars, outsideParser>>

ExtractNext ==
    \/ CallExtractEndpoints
    \/ ReparsePathsReordered
    \/ ReparseItemReordered
    \/ CallExtractEndpointsAgain

SpecExtract == ExtractInit /\ [][ExtractNext]_vars

Extracted == pc \in {"extracted", "extracted again"}

\* position of a path among the keys of spec.paths, of a verb in the verb list
PathIndex(path) == CHOOSE i \in DOMAIN spec.paths : spec.paths[i].key = path
SupportedVerbs == <<"get", "post", "put", "patch", "delete">>
VerbIndex(method) == CHOOSE i \in DOMAIN SupportedVerbs : SupportedVerbs[i] = method
IsSupportedVerb(key) == \E i \in DOMAIN SupportedVerbs : SupportedVerbs[i] = key

\* C3: extraction returns exactly one endpoint for each (path, verb) with the
\* verb one of the five and a key of the path's item, none for any other key,
\* ordered by the document's path order and, within a path, by verb.
C3_OneEndpointPerOperation ==
    Extracted =>
        /\ \A p \in DOMAIN spec.paths :
               \A k \in DOMAIN spec.paths[p].value :
                   LET key == spec.paths[p].value[k].key
                       hits == {e \in DOMAIN endpoints :
                                   /\ endpoints[e].path = spec.paths[p].key
                                   /\ endpoints[e].method = key}
                   IN  Cardinality(hits) = IF IsSupportedVerb(key) THEN 1 ELSE 0
        /\ \A e \in DOMAIN endpoints :
               /\ IsSupportedVerb(endpoints[e].method)
               /\ HasKey(spec.paths, endpoints[e].path)
               /\ HasKey(Get(spec.paths, endpoints[e].path)[1], endpoints[e].method)
        /\ \A e1, e2 \in DOMAIN endpoints :
               e1 < e2 =>
                   \/ PathIndex(endpoints[e1].path) < PathIndex(endpoints[e2].path)
                   \/ /\ endpoints[e1].path = endpoints[e2].path
                      /\ VerbIndex(endpoints[e1].method) < VerbIndex(endpoints[e2].method)

\* two paths were extracted, the first with delete inserted before get and a
\* key that is no verb
C3_Witness ==
    /\ pc = "extracted"
    /\ Len(spec.paths) = 2
    /\ Len(spec.paths[1].value) = 2
    /\ spec.paths[1].value[1].key = "delete"
    /\ spec.paths[1].value[2].key = "get"
    /\ spec.paths[2].value = <<Entry("head", ItemValue("head")), Entry("post", ItemValue("post"))>>
    /\ Len(endpoints) = 3
    /\ endpoints[1].method = "get"

RawRef(refString) ==
    [ref |-> Some(refString), type |-> None, properties |-> <<>>, items |-> None]
RefSchema(name) == RawRef(<<RefPrefix>> \o name)
PrimitiveSchema(type) ==
    [ref |-> None, type |-> Some(type), properties |-> <<>>, items |-> None]
ObjectSchema(properties) ==
    [ref |-> None, type |-> Some("object"), properties |-> properties, items |-> None]
ArraySchema(items) ==
    [ref |-> None, type |-> Some("array"), properties |-> <<>>, items |-> Some(items)]

(***************************************************************************)
(* The type synthesizer of the generator (schemaToType), which asks the    *)
(* parser to resolve references and keeps the names it has emitted.        *)
(***************************************************************************)
PrimitiveType(name) == [kind |-> "primitive", name |-> <<name>>, parts |-> <<>>]
NamedType(name)     == [kind |-> "named", name |-> name, parts |-> <<>>]
UnknownType         == [kind |-> "unknown", name |-> <<>>, parts |-> <<>>]
ArrayType(of)       == [kind |-> "array", name |-> <<>>, parts |-> <<Entry("items", of)>>]
ObjectType(fields)  == [kind |-> "object", name |-> <<>>, parts |-> fields]

\* the outcome of a synthesis: the type, the names emitted so far in the order
\* they were first expanded, the number of visits to a reference, the longest
\* nesting of such visits, and whether it ran to completion
Outcome(type, emitted, visits, depth, complete) ==
    [type |-> type, emitted |-> emitted, visits |-> visits, depth |-> depth,
     complete |-> complete]

Maximum(a, b) == IF a >= b THEN a ELSE b

\* the number of nested calls after which a synthesis counts as not terminating
SynthFuel == 12

RECURSIVE Synthesize_NoCache(_, _, _, _)
RECURSIVE SynthesizeFields_NoCache(_, _, _, _)

\* the synthesizer without the look at the emitted names
Synthesize_NoCache(schema, table, emitted, fuel) ==
    IF fuel = 0 THEN Outcome(UnknownType, emitted, 0, 0, FALSE)
    ELSE IF IsDefined(schema.ref) THEN
        LET name     == ReplaceFirst(schema.ref[1], RefPrefix)
            definition == ResolveSchema(table, schema).value
        IN  IF definition = schema THEN Outcome(UnknownType, emitted, 1, 1, TRUE)
            ELSE LET inner == Synthesize_NoCache(definition, table, Append(emitted, name), fuel - 1)
                 IN  Outcome(inner.type, inner.emitted, inner.visits + 1,
                             inner.depth + 1, inner.complete)
    ELSE IF schema.type = Some("array") THEN
        IF IsDefined(schema.items)
        THEN LET inner == Synthesize_NoCache(schema.items[1], table, emitted, fuel - 1)
             IN  Outcome(ArrayType(inner.type), inner.emitted, inner.visits,
                         inner.depth, inner.complete)
        ELSE Outcome(ArrayType(UnknownType), emitted, 0, 0, TRUE)
    ELSE IF schema.type = Some("object") THEN
        LET inner == SynthesizeFields_NoCache(schema.properties, table, emitted, fuel - 1)
        IN  Outcome(ObjectType(inner.type), inner.emitted, inner.visits,
                    inner.depth, inner.complete)
    ELSE IF schema.type \in {Some("string"), Some("boolean")}
        THEN Outcome(PrimitiveType(schema.type[1]), emitted, 0, 0, TRUE)
    ELSE IF schema.type \in {Some("number"), Some("integer")}
        THEN Outcome(PrimitiveType("number"), emitted, 0, 0, TRUE)
    ELSE Outcome(UnknownType, emitted, 0, 0, TRUE)

SynthesizeFields_NoCache(properties, table, emitted, fuel) ==
    IF properties = <<>> THEN Outcome(<<>>, emitted, 0, 0, TRUE)
    ELSE LET first == Synthesize_NoCache(Head(properties).value, table, emitted, fuel)
             rest  == SynthesizeFields_NoCache(Tail(properties), table, first.emitted, fuel)
         IN  Outcome(<<Entry(Head(properties).key, first.type)>> \o rest.type,
                     rest.emitted, first.visits + rest.visits,
                     Maximum(first.depth, rest.depth), first.complete /\ rest.complete)

RECURSIVE Synthesize(_, _, _, _)
RECURSIVE SynthesizeFields(_, _, _, _)

\* synthesize(schema, resolver, cache): one case per schema shape
Synthesize(schema, table, emitted, fuel) ==
    IF fuel = 0 THEN Outcome(UnknownType, emitted, 0, 0, FALSE)
    ELSE IF IsDefined(schema.ref) THEN
        LET name     == ReplaceFirst(schema.ref[1], RefPrefix)
            definition == ResolveSchema(table, schema).value
        IN  IF name \in Range(emitted) THEN Outcome(NamedType(name), emitted, 1, 1, TRUE)
            ELSE IF definition = schema THEN Outcome(UnknownType, emitted, 1, 1, TRUE)
            ELSE LET inner == Synthesize(definition, table, Append(emitted, name), fuel - 1)
                 IN  Outcome(inner.type, inner.emitted, inner.visits + 1,
                             inner.depth + 1, inner.complete)
    ELSE IF schema.type = Some("array") THEN
        IF IsDefined(schema.items)
        THEN LET inner == Synthesize(schema.items[1], table, emitted, fuel - 1)
             IN  Outcome(ArrayType(inner.type), inner.emitted, inner.visits,
                         inner.depth, inner.complete)
        ELSE Outcome(ArrayType(UnknownType), emitted, 0, 0, TRUE)
    ELSE IF schema.type = Some("object") THEN
        LET inner == SynthesizeFields(schema.properties, table, emitted, fuel - 1)
        IN  Outcome(ObjectType(inner.type), inner.emitted, inner.visits,
                    inner.depth, inner.complete)
    ELSE IF schema.type \in {Some("string"), Some("boolean")}
        THEN Outcome(PrimitiveType(schema.type[1]), emitted, 0, 0, TRUE)
    ELSE IF schema.type \in {Some("number"), Some("integer")}
        THEN Outcome(PrimitiveType("number"), emitted, 0, 0, TRUE)
    ELSE Outcome(UnknownType, emitted, 0, 0, TRUE)

\* the fields of an object, synthesized left to right with one cache
SynthesizeFields(properties, table, emitted, fuel) ==
    IF properties = <<>> THEN Outcome(<<>>, emitted, 0, 0, TRUE)
    ELSE LET first == Synthesize(Head(properties).value, table, emitted, fuel)
             rest  == SynthesizeFields(Tail(properties), table, first.emitted, fuel)
         IN  Outcome(<<Entry(Head(properties).key, first.type)>> \o rest.type,
                     rest.emitted, first.visits + rest.visits,
                     Maximum(first.depth, rest.depth), first.complete /\ rest.complete)

(***************************************************************************)
(* Reference resolution and type synthesis: documents whose                *)
(* components.schemas names A and B (in either order, or not at all) with  *)
(* definitions that refer to themselves, to each other and to the          *)
(* undefined name C                                                        *)
(***************************************************************************)
NameA == <<"A">>
NameB == <<"B">>
NameC == <<"C">>

\* definitions a name can be given
SchemaDefinitions ==
    {PrimitiveSchema("string"),
     RefSchema(NameA), RefSchema(NameB), RefSchema(NameC),
     ObjectSchema(<<Entry("next", RefSchema(NameA))>>),
     ObjectSchema(<<Entry("next", RefSchema(NameB))>>),
     ObjectSchema(<<Entry("left", RefSchema(NameA)), Entry("right", RefSchema(NameB))>>),
     ArraySchema(RefSchema(NameA))}

\* schemas handed to resolveSchema: the definitions, an inline integer, a
\* $ref without the prefix and a $ref into another document
ResolveArguments ==
    SchemaDefinitions
    \cup {PrimitiveSchema("integer"), RawRef(NameA), RawRef(<<"f", RefPrefix, "A">>)}

SchemaTables ==
    {[i \in DOMAIN names |-> Entry(names[i], definitions[i])] :
        names \in {<<>>, <<NameA>>, <<NameB>>, <<NameA, NameB>>, <<NameB, NameA>>},
        definitions \in [1..2 -> SchemaDefinitions]}

\* the components key of a document: absent, without schemas, or with a table
ComponentsChoices ==
    {None, Some([schemas |-> None])}
    \cup {Some([schemas |-> Some(table)]) : table \in SchemaTables}

SchemasInit ==
    /\ pc = "ready"
    /\ \E components \in ComponentsChoices :
           spec = [Document(<<>>) EXCEPT !.components = components]
    /\ schemas = LoadSchemas(spec)
    /\ endpoints = <<>>
    /\ resolved = None
    /\ NoRerun
    /\ NoSynthesis
    /\ OutsideParserIdle

\* a call of parser.resolveSchema(schema)
CallResolveSchema ==
    /\ pc = "ready"
    /\ \E schema \in ResolveArguments :
           resolved' = [schema |-> schema, outcome |-> ResolveSchema(schemas, schema)]
    /\ pc' = "resolved"
    /\ UNCHANGED <<spec, schemas, endpoints, rerunVars, generatorVars, outsideParser>>

\* the generator synthesizes the type of a schema with a fresh cache
CallSynthesize ==
    /\ pc = "ready"
    /\ \E schema \in SchemaDefinitions :
           synthesized' = [schema |-> schema,
                           outcome |-> Synthesize(schema, schemas, <<>>, SynthFuel)]
    /\ pc' = "synthesized"
    /\ UNCHANGED <<parserVars, rerunVars, outsideParser>>

SchemasNext == CallResolveSchema \/ CallSynthesize

SpecSchemas == SchemasInit /\ [][SchemasNext]_vars

\* the name a $ref points at: the $ref with the leading prefix stripped
StripPrefix(ref) == IF ref # <<>> /\ Head(ref) = RefPrefix THEN Tail(ref) ELSE ref

\* the definition components.schemas gives a name
DefinitionOf(name) ==
    LET table == spec.components[1].schemas[1]
    IN  table[CHOOSE i \in DOMAIN table : table[i].key = name].value
IsNamed(name) ==
    /\ IsDefined(spec.components)
    /\ IsDefined(spec.components[1].schemas)
    /\ \E i \in DOMAIN spec.components[1].schemas[1] :
           spec.components[1].schemas[1][i].key = name

\* C5: resolveSchema never throws; a reference to a name of the table returns
\* the definition stored under it, a reference to an absent name returns the
\* reference unchanged, and a schema that is no reference is returned unchanged.
C5_ResolveSchemaContract ==
    pc = "resolved" =>
        /\ ~resolved.outcome.threw
        /\ IF IsDefined(resolved.schema.ref)
           THEN LET name == StripPrefix(resolved.schema.ref[1])
                IN  IF IsNamed(name)
                    THEN resolved.outcome.value = DefinitionOf(name)
                    ELSE resolved.outcome.value = resolved.schema
           ELSE resolved.outcome.value = resolved.schema

\* a reference to the absent name C came back unchanged from a parser that
\* knows A and B
C5_Witness ==
    /\ pc = "resolved"
    /\ Len(schemas) = 2
    /\ resolved.schema = RefSchema(NameC)
    /\ resolved.outcome.value = RefSchema(NameC)

\* C6: one resolveSchema call makes at most one lookup, whatever the table
\* (a schema that refers to itself or to one that refers back); when the
\* definition found is itself a reference it is returned as it is stored.
C6_OneLevelDeep ==
    pc = "resolved" =>
        /\ resolved.outcome.lookups <= 1
        /\ ~IsDefined(resolved.schema.ref) => resolved.outcome.lookups = 0
        /\ (/\ IsDefined(resolved.schema.ref)
            /\ IsNamed(StripPrefix(resolved.schema.ref[1]))
            /\ IsDefined(DefinitionOf(StripPrefix(resolved.schema.ref[1])).ref)) =>
               resolved.outcome.value = DefinitionOf(StripPrefix(resolved.schema.ref[1]))

\* A is defined as a reference to B and B as a reference to A, and resolving
\* a reference to A returned the reference to B
C6_Witness ==
    /\ pc = "resolved"
    /\ schemas = <<Entry(NameA, RefSchema(NameB)), Entry(NameB, RefSchema(NameA))>>
    /\ resolved.schema = RefSchema(NameA)
    /\ resolved.outcome.value = RefSchema(NameB)
    /\ resolved.outcome.lookups = 1

\* every object of the table has at most one property
IsChain(table) == \A i \in DOMAIN table : Len(table[i].value.properties) <= 1

\* C7: synthesis ends with a finite type for every table; a name is expanded
\* at most once, a later visit returning a named reference; references are
\* nested at most (number of named schemas + 1) deep, and on a table of
\* schemas such as Node { next: Node } a reference is visited at most that
\* many times in all.
C7_CycleTermination ==
    pc = "synthesized" =>
        LET out == synthesized.outcome
        IN  /\ out.complete
            /\ Distinct(out.emitted)
            /\ \A i \in DOMAIN out.emitted : HasKey(schemas, out.emitted[i])
            /\ out.depth <= Len(schemas) + 1
            /\ (IsChain(schemas) /\ Len(synthesized.schema.properties) <= 1) =>
                   out.visits <= Len(schemas) + 1

\* A is Node { next: Node }: the reference to A was visited twice and the
\* second visit returned the named reference
C7_Witness ==
    /\ pc = "synthesized"
    /\ schemas = <<Entry(NameA, ObjectSchema(<<Entry("next", RefSchema(NameA))>>))>>
    /\ synthesized.schema = RefSchema(NameA)
    /\ synthesized.outcome.visits = 2
    /\ synthesized.outcome.type = ObjectType(<<Entry("next", NamedType(NameA))>>)

(***************************************************************************)
(* ExampleGenerator.sanitizeMethodName, one String.replace per step        *)
(***************************************************************************)
IsAlphanumeric(c) == c \in LowerSet \/ c \in UpperSet \/ c \in DigitChars

\* .replace(/[^a-zA-Z0-9]/g, '_')
ReplaceNonAlphanumeric(name) ==
    [i \in DOMAIN name |-> IF IsAlphanumeric(name[i]) THEN name[i] ELSE "_"]

\* a prefix for every leading character that is not a letter
PrefixLeadingDigit_OrUnderscore(name) ==
    IF name # <<>> /\ Head(name) \in DigitChars \cup {"_"} THEN <<"_">> \o name ELSE name

\* .replace(/^[0-9]/, '_$&')
PrefixLeadingDigit(name) ==
    IF name # <<>> /\ Head(name) \in DigitChars THEN <<"_">> \o name ELSE name

\* .replace(/([a-z])([A-Z])/g, '$1_$2'): the matches are found left to right
\* and a match consumes both of its characters
RECURSIVE SplitCamelCase(_)
SplitCamelCase(name) ==
    IF Len(name) < 2 THEN name
    ELSE IF name[1] \in LowerSet /\ name[2] \in UpperSet
         THEN <<name[1], "_", name[2]>> \o SplitCamelCase(SubSeq(name, 3, Len(name)))
         ELSE <<name[1]>> \o SplitCamelCase(Tail(name))

\* sanitizeMethodName with the lower-casing done before the camelCase step
SanitizeMethodName_LowerCaseFirst(name) ==
    SplitCamelCase(ToLowerCase(PrefixLeadingDigit(ReplaceNonAlphanumeric(name))))

\* ExampleGenerator.sanitizeMethodName
SanitizeMethodName(name) ==
    ToLowerCase(SplitCamelCase(PrefixLeadingDigit(ReplaceNonAlphanumeric(name))))

(***************************************************************************)
(* Sanitizing: raw names of up to MaxNameLen characters                    *)
(***************************************************************************)
MaxNameLen == 4

\* a lower-case and an upper-case letter, a digit, the underscore, and a
\* character that is none of these
NameChars == {"a", "B", "1", "_", "-"}

SanitizeInit ==
    /\ pc = "ready"
    /\ rawName \in SeqsUpTo(NameChars, MaxNameLen)
    /\ methodName = <<>>
    /\ InsideParserIdle
    /\ EntryIdle
    /\ HostsIdle

\* a call of sanitizeMethodName(rawName)
CallSanitizeMethodName ==
    /\ pc = "ready"
    /\ methodName' = SanitizeMethodName(rawName)
    /\ pc' = "sanitized"
    /\ UNCHANGED <<rawName, insideParser, entryVars, hostVars>>

\* the method name is read back and sanitized again
CallSanitizeAgain ==
    /\ pc = "sanitized"
    /\ rawName' = methodName
    /\ methodName' = SanitizeMethodName(methodName)
    /\ pc' = "sanitized again"
    /\ UNCHANGED <<insideParser, entryVars, hostVars>>

SanitizeNext == CallSanitizeMethodName \/ CallSanitizeAgain

SpecSanitize == SanitizeInit /\ [][SanitizeNext]_vars

\* the steps as the claim words them
KeepIdentifierChars(name) ==
    [i \in DOMAIN name |->
        IF name[i] \in LowerSet \cup UpperSet \cup DigitChars \cup {"_"} THEN name[i] ELSE "_"]
UnderscoreBeforeDigit(name) ==
    IF name # <<>> /\ name[1] \in DigitChars THEN <<"_">> \o name ELSE name
\* an underscore after every position where a lower-case letter is followed
\* by an upper-case one
SeparateTransitions(name) ==
    Flatten([i \in DOMAIN name |->
                IF i < Len(name) /\ name[i] \in LowerSet /\ name[i + 1] \in UpperSet
                THEN <<name[i], "_">> ELSE <<name[i]>>])
AllLowerCase(name) ==
    [i \in DOMAIN name |->
        IF name[i] \in UpperSet THEN LowerLetters[LetterIndex(UpperLetters, name[i])] ELSE name[i]]

\* C8: the method name is the raw name with every character outside
\* [A-Za-z0-9_] replaced by '_', then '_' prefixed if it starts with a digit,
\* then '_' inserted at every lower-to-upper transition, then lower-cased; for
\* a non-empty raw name it is a non-empty string over [a-z0-9_] that does not
\* start with a digit.
C8_SanitizeMethodName ==
    pc = "sanitized" =>
        /\ methodName =
               AllLowerCase(SeparateTransitions(UnderscoreBeforeDigit(KeepIdentifierChars(rawName))))
        /\ rawName # <<>> =>
               /\ methodName # <<>>
               /\ \A i \in DOMAIN methodName :
                      methodName[i] \in LowerSet \cup DigitChars \cup {"_"}
               /\ methodName[1] \notin DigitChars

\* a name that starts with a digit and has a camelCase boundary and a
\* character outside the identifier alphabet was sanitized
C8_Witness ==
    /\ pc = "sanitized"
    /\ rawName = <<"1", "a", "B", "-">>
    /\ methodName = <<"_", "1", "a", "_", "b", "_">>

(***************************************************************************)
(* The entry point: isUrl, generateSpecFromUrl, normalizeSpec              *)
(*                                                                         *)
(* new URL(str) is the WHATWG parser of the runtime, here for inputs       *)
(* without credentials, port, fragment, backslash, percent escape or dot   *)
(* segment: surrounding spaces are stripped, the scheme is lower-cased, a  *)
(* special scheme (http, https, ftp) skips the slashes after the colon and *)
(* needs a non-empty host, any other scheme keeps the rest as its path.    *)
(***************************************************************************)
\* String.prototype.indexOf for one character, counted from 1: 0 when absent
IndexOf(s, c) ==
    IF \E i \in DOMAIN s : s[i] = c
    THEN CHOOSE i \in DOMAIN s : s[i] = c /\ \A j \in 1..(i - 1) : s[j] # c
    ELSE 0

\* String.prototype.split(c) for a one-character separator
RECURSIVE Split(_, _)
Split(s, c) ==
    LET k == IndexOf(s, c)
    IN  IF k = 0 THEN <<s>>
        ELSE <<SubSeq(s, 1, k - 1)>> \o Split(SubSeq(s, k + 1, Len(s)), c)

\* Array.prototype.join(c)
RECURSIVE Join(_, _)
Join(parts, c) ==
    IF parts = <<>> THEN <<>>
    ELSE IF Len(parts) = 1 THEN parts[1]
    ELSE parts[1] \o <<c>> \o Join(Tail(parts), c)

RECURSIVE TrimLeft(_)
TrimLeft(s) == IF s # <<>> /\ Head(s) = " " THEN TrimLeft(Tail(s)) ELSE s
RECURSIVE TrimRight(_)
TrimRight(s) ==
    IF s # <<>> /\ s[Len(s)] = " " THEN TrimRight(SubSeq(s, 1, Len(s) - 1)) ELSE s
Trim(s) == TrimRight(TrimLeft(s))

RECURSIVE SkipSlashes(_)
SkipSlashes(s) == IF s # <<>> /\ Head(s) = "/" THEN SkipSlashes(Tail(s)) ELSE s

HttpProtocol == <<"h", "t", "t", "p", ":">>
HttpsProtocol == <<"h", "t", "t", "p", "s", ":">>
FtpProtocol == <<"f", "t", "p", ":">>
SpecialProtocols == {HttpProtocol, HttpsProtocol, FtpProtocol}
SchemeChars == LowerSet \cup UpperSet \cup DigitChars \cup {"+", "-", "."}

\* new URL(str) threw a TypeError
UrlFailure ==
    [ok |-> FALSE, protocol |-> <<>>, host |-> <<>>, pathname |-> <<>>, search |-> <<>>]

\* new URL: the host and the path of what follows the slashes of a special
\* scheme; a missing host or a space in the host is a failure
ParseAuthority(protocol, afterSlashes, slash, search) ==
    LET host     == IF slash = 0 THEN afterSlashes
                    ELSE SubSeq(afterSlashes, 1, slash - 1)
        pathname == IF slash = 0 THEN <<"/">>
                    ELSE SubSeq(afterSlashes, slash, Len(afterSlashes))
    IN  IF host = <<>> \/ \E i \in DOMAIN host : host[i] = " "
        THEN UrlFailure
        ELSE [ok |-> TRUE, protocol |-> protocol, host |-> ToLowerCase(host),
              pathname |-> pathname, search |-> search]

\* new URL: what follows the scheme, already split at the first '?'
ParseHierarchy(protocol, hier, search) ==
    IF protocol \in SpecialProtocols
    THEN ParseAuthority(protocol, SkipSlashes(hier),
                        IndexOf(SkipSlashes(hier), "/"), search)
    ELSE [ok |-> TRUE, protocol |-> protocol, host |-> <<>>,
          pathname |-> hier, search |-> search]

\* new URL: what follows the colon of the scheme
ParseAfterScheme(protocol, rest, mark) ==
    ParseHierarchy(protocol,
                   IF mark = 0 THEN rest ELSE SubSeq(rest, 1, mark - 1),
                   IF mark = 0 THEN <<>> ELSE SubSeq(rest, mark + 1, Len(rest)))

\* new URL: the scheme of the stripped input, up to the first colon; without
\* a scheme the input is a relative reference, which has no base to resolve on
ParseScheme(input, colon) ==
    IF \/ colon <= 1
       \/ input[1] \notin LowerSet \cup UpperSet
       \/ \E i \in 1..(colon - 1) : input[i] \notin SchemeChars
    THEN UrlFailure
    ELSE ParseAfterScheme(ToLowerCase(SubSeq(input, 1, colon)),
                          SubSeq(input, colon + 1, Len(input)),
                          IndexOf(SubSeq(input, colon + 1, Len(input)), "?"))

\* new URL(str): the fields of the URL object the code reads
ParseUrl(str) == ParseScheme(Trim(str), IndexOf(Trim(str), ":"))

\* url.searchParams: the entries of the query string in order, '+' read as a space
SearchParams(search) ==
    LET NonEmpty(piece) == piece # <<>>
        PlusToSpace(t)  == [i \in DOMAIN t |-> IF t[i] = "+" THEN " " ELSE t[i]]
        pieces          == SelectSeq(Split(search, "&"), NonEmpty)
        EntryOf(piece)  ==
            LET eq == IndexOf(piece, "=")
            IN  [key   |-> PlusToSpace(IF eq = 0 THEN piece ELSE SubSeq(piece, 1, eq - 1)),
                 value |-> PlusToSpace(IF eq = 0 THEN <<>>
                                       ELSE SubSeq(piece, eq + 1, Len(piece)))]
    IN  [i \in DOMAIN pieces |-> EntryOf(pieces[i])]

\* the protocol test of isUrl, on the parsed URL (new URL threw: false)
HasHttpProtocol(url) ==
    IF url.ok THEN url.protocol = HttpProtocol \/ url.protocol = HttpsProtocol
    ELSE FALSE

\* isUrl that accepts whatever new URL() accepts
IsUrl_AnyProtocol(str) == ParseUrl(str).ok

\* isUrl
IsUrl(str) == HasHttpProtocol(ParseUrl(str))

\* Number(value) for decimal literals (no exponent, radix prefix or Infinity):
\* whether it is NaN and whether Number.isInteger holds of it
NumberOf(value) ==
    LET t         == Trim(value)
        unsigned  == IF t # <<>> /\ t[1] \in {"+", "-"} THEN Tail(t) ELSE t
        dot       == IndexOf(unsigned, ".")
        whole     == IF dot = 0 THEN unsigned ELSE SubSeq(unsigned, 1, dot - 1)
        fraction  == IF dot = 0 THEN <<>> ELSE SubSeq(unsigned, dot + 1, Len(unsigned))
        Digits(x) == \A i \in DOMAIN x : x[i] \in DigitChars
    IN  IF t = <<>> THEN [nan |-> FALSE, integer |-> TRUE]
        ELSE IF Digits(whole) /\ Digits(fraction) /\ (whole # <<>> \/ fraction # <<>>)
        THEN [nan |-> FALSE, integer |-> \A i \in DOMAIN fraction : fraction[i] = "0"]
        ELSE [nan |-> TRUE, integer |-> FALSE]

NaN == <<"N", "a", "N">>

\* parseInt(value): the sign and leading digits of the trimmed text, as a numeral
ParseInt(value) ==
    LET t        == Trim(value)
        negative == t # <<>> /\ t[1] = "-"
        unsigned == IF t # <<>> /\ t[1] \in {"+", "-"} THEN Tail(t) ELSE t
        stop     == IF \E i \in DOMAIN unsigned : unsigned[i] \notin DigitChars
                    THEN (CHOOSE i \in DOMAIN unsigned :
                              /\ unsigned[i] \notin DigitChars
                              /\ \A j \in 1..(i - 1) : unsigned[j] \in DigitChars) - 1
                    ELSE Len(unsigned)
        digits   == SubSeq(unsigned, 1, stop)
    IN  IF digits = <<>> THEN NaN
        ELSE (IF negative THEN <<"-">> ELSE <<>>) \o digits

\* the parameter generateSpecFromUrl pushes for one query entry
UrlParameter(key, value) ==
    LET number    == NumberOf(value)
        paramType == IF value = <<"t", "r", "u", "e">> \/ value = <<"f", "a", "l", "s", "e">>
                     THEN "boolean"
                     ELSE IF ~number.nan /\ value # <<>>
                     THEN (IF number.integer THEN "integer" ELSE "number")
                     ELSE "string"
        isPlaceholder == value # <<>> /\ value[1] = "[" /\ value[Len(value)] = "]"
        isRequired == \/ isPlaceholder
                      \/ key = <<"k", "e", "y">>
                      \/ key = <<"l", "a", "y", "e", "r">>
                      \/ key = <<"x">>
                      \/ key = <<"y">>
        \* parseInt / parseFloat / value === 'true' of the spread objects
        default   == IF isPlaceholder \/ paramType = "string" THEN None
                     ELSE IF paramType = "integer" THEN Some(ParseInt(value))
                     ELSE Some(Trim(value))
    IN  [name     |-> key,
         in       |-> "query",
         required |-> isRequired,
         schema   |-> [type |-> paramType, default |-> default]]

\* generateSpecFromUrl, from the query parameters on: the document returned
UrlDocument(url, baseUrl, path, entries) ==
    LET parameters  == [i \in DOMAIN entries |->
                           UrlParameter(entries[i].key, entries[i].value)]
        hostParts   == Split(url.host, ".")
        apiName     == IF Len(hostParts) > 1 THEN hostParts[Len(hostParts) - 1]
                       ELSE <<"A", "P", "I">>
        capitalizedName == IF apiName = <<>> THEN <<>>
                           ELSE <<ToUpperChar(apiName[1])>> \o Tail(apiName)
        Alphanumeric(c) == c \in LowerSet \cup UpperSet \cup DigitChars
        \* path.replace(/[^a-zA-Z0-9]/g, '')
        alphanumeric == SelectSeq(path, Alphanumeric)
    IN  [info       |-> [title |-> capitalizedName \o <<" ", "A", "P", "I">>],
         servers    |-> <<[url |-> baseUrl]>>,
         hasPaths   |-> TRUE,
         paths      |-> <<Entry(path, <<Entry("get",
                           [operationId |-> Some(IF alphanumeric = <<>>
                                                 THEN <<"g", "e", "t", "D", "a", "t", "a">>
                                                 ELSE alphanumeric),
                            summary     |-> Some(<<"G", "E", "T", " ">> \o path),
                            parameters  |-> Some(parameters),
                            requestBody |-> None])>>)>>,
         components |-> None]

\* generateSpecFromUrl, from the path segments on: the base URL is the origin
\* and all segments but the last, the path is the last segment
UrlSplit(url, pathParts, origin) ==
    UrlDocument(url,
                IF Len(pathParts) > 0
                THEN origin \o <<"/">> \o Join(SubSeq(pathParts, 1, Len(pathParts) - 1), "/")
                ELSE origin,
                IF Len(pathParts) > 0 THEN <<"/">> \o pathParts[Len(pathParts)]
                ELSE <<"/">>,
                SearchParams(url.search))

\* url.pathname.split('/').filter(p => p.length > 0)
PathPartsOf(pathname) ==
    LET NonEmpty(p) == Len(p) > 0
    IN  SelectSeq(SplitSlash(pathname), NonEmpty)

\* generateSpecFromUrl, from the parsed URL on (url.host carries no port here,
\* so it is url.hostname as well)
UrlSpec(url) ==
    UrlSplit(url, PathPartsOf(url.pathname), url.protocol \o <<"/", "/">> \o url.host)

\* generateSpecFromUrl
GenerateSpecFromUrl(urlString) == UrlSpec(ParseUrl(urlString))

\* what a normalizeSpec call did: its result or the error it threw, and how
\* often it built a document from a URL, asked whether the file exists, read
\* the file and parsed JSON
Normalized(value, error, urlSpecs, existsChecks, reads, parses) ==
    [threw        |-> IsDefined(error),
     error        |-> error,
     value        |-> value,
     urlSpecs     |-> urlSpecs,
     existsChecks |-> existsChecks,
     reads        |-> reads,
     parses       |-> parses]

\* normalizeSpec that goes on with an empty document when the file is
\* missing or does not parse
NormalizeSpec_EmptyOnFailure(input, file) ==
    IF input.type = "string"
    THEN IF IsUrl(input.text)
         THEN Normalized(Some(GenerateSpecFromUrl(input.text)), None, 1, 0, 0, 0)
         ELSE IF ~file.exists
         THEN Normalized(Some(Document(<<>>)), None, 0, 1, 0, 0)
         ELSE IF ~file.validJson
         THEN Normalized(Some(Document(<<>>)), None, 0, 1, 1, 1)
         ELSE Normalized(Some(file.content), None, 0, 1, 1, 1)
    ELSE Normalized(Some(input.object), None, 0, 0, 0, 0)

\* normalizeSpec
NormalizeSpec(input, file) ==
    IF input.type = "string"
    THEN IF IsUrl(input.text)
         THEN Normalized(Some(GenerateSpecFromUrl(input.text)), None, 1, 0, 0, 0)
         ELSE IF ~file.exists
         THEN Normalized(None, Some("File not found"), 0, 1, 0, 0)
         ELSE IF ~file.validJson
         THEN Normalized(None, Some("SyntaxError"), 0, 1, 1, 1)
         ELSE Normalized(Some(file.content), None, 0, 1, 1, 1)
    ELSE Normalized(Some(input.object), None, 0, 0, 0, 0)

(***************************************************************************)
(* The entry point: getBaseUrl, the generator, the example generator and   *)
(* generateClientArtifacts                                                 *)
(***************************************************************************)
PlaceholderBaseUrl ==
    <<"h", "t", "t", "p", "s", ":", "/", "/", "a", "p", "i", ".",
      "e", "x", "a", "m", "p", "l", "e", ".", "c", "o", "m">>

\* OpenAPIParser.getBaseUrl
GetBaseUrl(s) == IF Len(s.servers) > 0 THEN s.servers[1].url ELSE PlaceholderBaseUrl

\* the method names of a list of endpoints, in order
MethodNames(eps) == [i \in DOMAIN eps |-> SanitizeMethodName(eps[i].operationId)]

\* the pairs of positions whose endpoints get one method name
Collisions(eps) ==
    {pair \in (DOMAIN eps) \X (DOMAIN eps) :
        /\ pair[1] < pair[2]
        /\ MethodNames(eps)[pair[1]] = MethodNames(eps)[pair[2]]}

\* the error an exception carries: what it is about and the operations it names
Failure(kind, operations) == [kind |-> kind, operations |-> operations]

\* TypeScriptClientGenerator.generate: it starts with
\* parser.extractEndpoints(), whose exception leaves it; then one method per
\* endpoint, named by the sanitizer; two endpoints with one method name are
\* a generation error that names both operations
GeneratorGenerate(s) ==
    LET eps == ExtractEndpoints(s)
    IN  IF ExtractEndpointsThrows(s)
        THEN [threw |-> TRUE, error |-> Some(Failure("TypeError", <<>>)), methods |-> <<>>]
        ELSE IF Collisions(eps) # {}
        THEN LET first == CHOOSE pair \in Collisions(eps) :
                              \A other \in Collisions(eps) :
                                  \/ pair[1] < other[1]
                                  \/ pair[1] = other[1] /\ pair[2] <= other[2]
             IN  [threw   |-> TRUE,
                  error   |-> Some(Failure("naming collision",
                                           <<eps[first[1]].operationId,
                                             eps[first[2]].operationId>>)),
                  methods |-> MethodNames(eps)]
        ELSE [threw |-> FALSE, error |-> None, methods |-> MethodNames(eps)]

\* TypeScriptClientGenerator.generateClassName: a name derived from the title
GenerateClassName(s) == [derivedFrom |-> s.info.title]

\* apiKeyPatterns of the example generator
ApiKeyPatterns ==
    {<<"k", "e", "y">>,
     <<"a", "p", "i", "_", "k", "e", "y">>,
     <<"a", "p", "i", "k", "e", "y">>,
     <<"a", "p", "i", "-", "k", "e", "y">>,
     <<"t", "o", "k", "e", "n">>,
     <<"a", "c", "c", "e", "s", "s", "_", "t", "o", "k", "e", "n">>,
     <<"a", "c", "c", "e", "s", "s", "-", "t", "o", "k", "e", "n">>,
     <<"a", "c", "c", "e", "s", "s", "t", "o", "k", "e", "n">>,
     <<"a", "u", "t", "h">>,
     <<"a", "u", "t", "h", "_", "t", "o", "k", "e", "n">>,
     <<"a", "u", "t", "h", "-", "t", "o", "k", "e", "n">>,
     <<"a", "u", "t", "h", "t", "o", "k", "e", "n">>,
     <<"a", "p", "i", "_", "t", "o", "k", "e", "n">>,
     <<"a", "p", "i", "-", "t", "o", "k", "e", "n">>,
     <<"a", "p", "i", "t", "o", "k", "e", "n">>}

\* a test that looks at the name only
IsApiKeyQueryParam_AnyLocation(param) == ToLowerCase(param.name) \in ApiKeyPatterns

IsApiKeyQueryParam(param) ==
    param.in = "query" /\ ToLowerCase(param.name) \in ApiKeyPatterns

\* a detection that looks at the first endpoint only
DetectApiKeyQueryParam_FirstEndpoint(eps) ==
    LET all     == IF eps = <<>> THEN <<>> ELSE eps[1].parameters
        matches == SelectSeq(all, IsApiKeyQueryParam)
    IN  IF matches # <<>> THEN [found |-> TRUE, paramName |-> Some(matches[1].name)]
        ELSE [found |-> FALSE, paramName |-> None]

\* ExampleGenerator.detectApiKeyQueryParam: the first matching parameter of
\* the first endpoint that has one
DetectApiKeyQueryParam(eps) ==
    LET all     == Flatten([i \in DOMAIN eps |-> eps[i].parameters])
        matches == SelectSeq(all, IsApiKeyQueryParam)
    IN  IF matches # <<>> THEN [found |-> TRUE, paramName |-> Some(matches[1].name)]
        ELSE [found |-> FALSE, paramName |-> None]

\* ExampleGenerator.generateEndpointExample: the call snippet of one endpoint
GenerateEndpointExample(endpoint) ==
    LET InPath(p)   == p.in = "path"
        InQuery(p)  == p.in = "query"
        pathParams  == SelectSeq(endpoint.parameters, InPath)
        queryParams == SelectSeq(endpoint.parameters, InQuery)
        keyParams   == SelectSeq(queryParams, IsApiKeyQueryParam)
        PathArg(p)  == [name  |-> p.name,
                        value |-> IF p.schema.type = "integer" THEN "123"
                                  ELSE "\"example-value\""]
        QueryArg(p) == [name  |-> p.name,
                        value |-> IF keyParams # <<>> /\ p.name = keyParams[1].name
                                  THEN "API_KEY"
                                  ELSE IF p.schema.type = "integer" THEN "10"
                                  ELSE "\"value\""]
    IN  [title      |-> OrElse(endpoint.summary, endpoint.operationId),
         methodName |-> SanitizeMethodName(endpoint.operationId),
         pathArgs   |-> [i \in DOMAIN pathParams |-> PathArg(pathParams[i])],
         queryArgs  |-> [i \in DOMAIN queryParams |-> QueryArg(queryParams[i])],
         hasBody    |-> IsDefined(endpoint.requestBody)]

\* a slice that takes one element more
Slice_OneMore(seq, n) == SubSeq(seq, 1, IF Len(seq) < n + 1 THEN Len(seq) ELSE n + 1)

\* Array.prototype.slice(0, n)
Slice(seq, n) == SubSeq(seq, 1, IF Len(seq) < n THEN Len(seq) ELSE n)

\* ExampleGenerator.generate: the parts of the example file that depend on
\* the document and the key
ExampleGenerate(s, className, clientFileName, apiKey) ==
    LET eps      == ExtractEndpoints(s)
        keyParam == DetectApiKeyQueryParam(eps)
        hasKey   == IsDefined(apiKey) /\ apiKey[1] # <<>>
        shown    == Slice(eps, 3)
    IN  [className         |-> className,
         importFrom        |-> clientFileName,
         baseUrl           |-> GetBaseUrl(s),
         declaresApiKey    |-> keyParam.found,
         apiKeyParamName   |-> keyParam.paramName,
         apiKeyConstant    |-> IF keyParam.found /\ hasKey THEN apiKey ELSE None,
         constructorApiKey |-> IF ~keyParam.found /\ hasKey THEN apiKey ELSE None,
         calls             |-> [i \in DOMAIN shown |-> GenerateEndpointExample(shown[i])]]

\* String.prototype.replace('.ts', '.js'): the first occurrence only
ReplaceTsByJs(name) ==
    LET At(i) == i + 2 <= Len(name) /\ SubSeq(name, i, i + 2) = <<".", "t", "s">>
    IN  IF \E i \in DOMAIN name : At(i)
        THEN LET k == CHOOSE i \in DOMAIN name : At(i) /\ \A j \in 1..(i - 1) : ~At(j)
             IN  SubSeq(name, 1, k - 1) \o <<".", "j", "s">> \o SubSeq(name, k + 3, Len(name))
        ELSE name

DefaultClientFileName ==
    <<"g", "e", "n", "e", "r", "a", "t", "e", "d", "-",
      "c", "l", "i", "e", "n", "t", ".", "j", "s">>

\* the client file name the example imports from: the default, or what
\* setClientFileName makes of the last piece of options.outputFileName
ClientFileName(outputFileName) ==
    IF IsDefined(outputFileName) /\ outputFileName[1] # <<>>
    THEN LET Last(parts) == parts[Len(parts)]
             backslashAsSlash == [i \in DOMAIN outputFileName[1] |->
                                     IF outputFileName[1][i] = "\\" THEN "/"
                                     ELSE outputFileName[1][i]]
             \* outputFileName.split(/[/\\]/).pop() || outputFileName
             piece    == IF Last(SplitSlash(backslashAsSlash)) # <<>>
                         THEN Last(SplitSlash(backslashAsSlash))
                         ELSE outputFileName[1]
             \* fileName.split('/').pop() || fileName
             baseName == IF Last(SplitSlash(piece)) # <<>>
                         THEN Last(SplitSlash(piece)) ELSE piece
         IN  ReplaceTsByJs(baseName)
    ELSE DefaultClientFileName

\* what a generateClientArtifacts call gave its caller: the artifacts
\* returned or the error thrown
Artifacts(className, client, example, eps, baseUrl) ==
    [threw     |-> FALSE,
     error     |-> None,
     className |-> Some(className),
     client    |-> Some(client),
     example   |-> example,
     endpoints |-> eps,
     baseUrl   |-> baseUrl]
NoArtifacts(error) ==
    [threw     |-> TRUE,
     error     |-> Some(error),
     className |-> None,
     client    |-> None,
     example   |-> None,
     endpoints |-> <<>>,
     baseUrl   |-> <<>>]

\* generateClientArtifacts, lines 538 to 547: the example, unless
\* options.includeExample is false
ExampleOf(s, className, opts) ==
    IF opts.includeExample # Some(FALSE)
    THEN Some(ExampleGenerate(s, className, ClientFileName(opts.outputFileName),
                              opts.apiKey))
    ELSE None

\* generateClientArtifacts, from generator.generate() having returned to the
\* return statement
Assemble(s, client, className, opts) ==
    Artifacts(className, [methods |-> client.methods], ExampleOf(s, className, opts),
              ExtractEndpoints(s), GetBaseUrl(s))

\* generateClientArtifacts after normalizeSpec, with the generate() call
\* wrapped in a try block whose catch keeps what the generator had built
GenerateFrom_CatchGenerator(norm, opts) ==
    IF norm.threw THEN NoArtifacts(Failure(norm.error[1], <<>>))
    ELSE Assemble(norm.value[1], GeneratorGenerate(norm.value[1]),
                  GenerateClassName(norm.value[1]), opts)

\* what generator.generate() threw leaves the call; otherwise the artifacts
GenerateWith(s, client, opts) ==
    IF client.threw THEN NoArtifacts(client.error[1])
    \* parser.extractEndpoints() of line 532
    ELSE IF ExtractEndpointsThrows(s) THEN NoArtifacts(Failure("TypeError", <<>>))
    ELSE Assemble(s, client, GenerateClassName(s), opts)

\* generateClientArtifacts after normalizeSpec: what normalizeSpec threw
\* leaves the call; otherwise a parser and a generator are built on its result
GenerateFrom(norm, opts) ==
    IF norm.threw THEN NoArtifacts(Failure(norm.error[1], <<>>))
    ELSE GenerateWith(norm.value[1], GeneratorGenerate(norm.value[1]), opts)

\* generateClientArtifacts
GenerateClientArtifacts(input, opts, file) ==
    GenerateFrom(NormalizeSpec(input, file), opts)

(***************************************************************************)
(* Spec acquisition: normalizeSpec called with a text put together from a  *)
(* scheme, slashes, a host, a path and a query, or with a parsed document, *)
(* while the file the text would name is missing, unparsable or a document *)
(***************************************************************************)
MaxUrlPathLen == 2

StringInput(text) == [type |-> "string", text |-> text, object |-> Document(<<>>)]
ObjectInput(object) == [type |-> "object", text |-> <<>>, object |-> object]

SchemeParts ==
    {<<>>,
     <<"h", "t", "t", "p", ":">>,
     <<"h", "t", "t", "p", "s", ":">>,
     <<"H", "T", "T", "P", ":">>,
     <<"f", "t", "p", ":">>,
     <<"c", ":">>}
HostParts == {<<>>, <<"h">>, <<"a", ".", "n", "z">>}
PathParts == SeqsUpTo({"/", "a"}, MaxUrlPathLen) \cup {<<"/", "a", "/", "b">>}
QueryParts ==
    {<<>>,
     <<"?", "n", "=", "1">>,
     <<"?", "k", "e", "y", "=", "[", "t", "]", "&", "f", "=", "t", "r", "u", "e">>}

AcquireTexts ==
    {lead \o scheme \o slashes \o host \o path \o query :
        lead \in {<<>>, <<" ">>}, scheme \in SchemeParts,
        slashes \in {<<>>, <<"/", "/">>}, host \in HostParts,
        path \in PathParts, query \in QueryParts}

\* a small document with one declared operation
StoredDocument ==
    Document(<<Entry(<<"/", "a">>,
                     <<Entry("get", Operation(Some(<<"a">>), None))>>)>>)

AcquireInputs ==
    {StringInput(text) : text \in AcquireTexts}
        \cup {ObjectInput(Document(<<>>)), ObjectInput(StoredDocument)}

FileStates ==
    {NoFile,
     [exists |-> TRUE, validJson |-> FALSE, content |-> Document(<<>>)],
     [exists |-> TRUE, validJson |-> TRUE, content |-> StoredDocument],
     [exists |-> TRUE, validJson |-> TRUE, content |-> WithoutPaths]}

AcquireInit ==
    /\ pc = "ready"
    /\ specInput \in AcquireInputs
    /\ files \in FileStates
    /\ options = None
    /\ normalized = None
    /\ artifacts = None
    /\ InsideParserIdle
    /\ SanitizerIdle
    /\ HostsIdle

CallNormalizeSpec ==
    /\ pc = "ready"
    /\ normalized' = NormalizeSpec(specInput, files)
    /\ pc' = "normalized"
    /\ UNCHANGED <<specInput, options, files, artifacts, insideParser, sanitizerVars,
                   hostVars>>

AcquireNext == CallNormalizeSpec

SpecAcquire == AcquireInit /\ [][AcquireNext]_vars

\* the text, after its surrounding spaces, starts with http: or https: in any
\* letter case and names a host after the slashes that follow the colon
HttpUrlText(text) ==
    LET t == Trim(text)
        StartsWith(prefix) ==
            /\ Len(t) >= Len(prefix)
            /\ ToLowerCase(SubSeq(t, 1, Len(prefix))) = prefix
        HostAfter(prefix) ==
            LET tail == SkipSlashes(SubSeq(t, Len(prefix) + 1, Len(t)))
            IN  tail # <<>> /\ tail[1] \notin {"/", "?", " "}
    IN  \/ StartsWith(HttpProtocol) /\ HostAfter(HttpProtocol)
        \/ StartsWith(HttpsProtocol) /\ HostAfter(HttpsProtocol)

GenerateOperationIds ==
    {None,
     Some(<<"a", "B">>),
     Some(<<"a", "_", "b">>),
     Some(<<"g", "e", "t", "_", "a">>),
     Some(<<"c">>)}

GenerateItems ==
    {<<Entry("get", Operation(id, None))>> : id \in GenerateOperationIds}
        \cup {<<Entry("get", Operation(id, None)), Entry("post", Operation(other, None))>> :
                 id \in GenerateOperationIds, other \in GenerateOperationIds}

GenerateDocuments ==
    {Document(<<>>)}
        \cup {Document(<<Entry(<<"/", "a">>, item)>>) : item \in GenerateItems}
        \cup {Document(<<Entry(<<"/", "a">>, item), Entry(<<"/", "b">>, other)>>) :
                 item \in GenerateItems, other \in GenerateItems}

GenerateTexts ==
    {<<"h", "t", "t", "p", ":", "/", "/", "h", "/", "a", "?", "k", "e", "y", "=", "[", "t", "]">>,
     <<"a", ".", "n", "z">>}

GenerateOptions ==
    {[includeExample |-> include, apiKey |-> key[1], outputFileName |-> key[2]] :
        include \in {None, Some(TRUE), Some(FALSE)},
        key \in {<<None, None>>,
                 <<Some(<<"s", "k">>), Some(<<"o", "/", "c", ".", "t", "s">>)>>}}

GenerateInit ==
    /\ pc = "ready"
    /\ \/ /\ specInput \in {ObjectInput(d) : d \in GenerateDocuments \cup {WithoutPaths}}
          /\ files = NoFile
       \/ /\ specInput \in {StringInput(text) : text \in GenerateTexts}
          /\ files \in FileStates
    /\ options \in GenerateOptions
    /\ normalized = None
    /\ artifacts = None
    /\ InsideParserIdle
    /\ SanitizerIdle
    /\ HostsIdle

\* a call of generateClientArtifacts(specInput, options): when normalizeSpec
\* returns, a parser is built on its result and asked for the endpoints
Generation(input, opts) ==
    /\ normalized' = NormalizeSpec(input, files)
    /\ artifacts' = GenerateClientArtifacts(input, opts, files)
    /\ IF normalized'.threw
       THEN UNCHANGED <<spec, schemas, endpoints>>
       ELSE /\ spec' = normalized'.value[1]
            /\ schemas' = LoadSchemas(spec')
            /\ IF ExtractEndpointsThrows(spec')
               THEN UNCHANGED endpoints
               ELSE endpoints' = ExtractEndpoints(spec')

CallGenerateClientArtifacts ==
    /\ pc = "ready"
    /\ Generation(specInput, options)
    /\ pc' = "generated"
    /\ UNCHANGED <<specInput, options, files, resolved, rerunVars, generatorVars,
                   sanitizerVars, hostVars>>

GenerateNext == CallGenerateClientArtifacts

SpecGenerate == GenerateInit /\ [][GenerateNext]_vars

\* the method name of an operation id, by the steps of C8
ClaimedMethodName(operationId) ==
    AllLowerCase(SeparateTransitions(UnderscoreBeforeDigit(KeepIdentifierChars(operationId))))

\* the endpoints at positions i < j have operation ids with one method name
Collide(eps, i, j) ==
    i < j /\ ClaimedMethodName(eps[i].operationId) = ClaimedMethodName(eps[j].operationId)

Injective(seq) == \A i, j \in DOMAIN seq : seq[i] = seq[j] => i = j

MaxValueLen == 3

\* the characters of a query value as written in the URL; '+' stands for a space
ValueChars == {"0", "1", ".", "-", "+", "a"}

QueryValues ==
    SeqsUpTo(ValueChars, MaxValueLen)
        \cup {<<"t", "r", "u", "e">>, <<"f", "a", "l", "s", "e">>, <<"T", "r", "u", "e">>,
              <<"[", "t", "]">>, <<"[", "1", "]">>, <<"[", "1">>}

QueryKeys == {<<"k", "e", "y">>, <<"n">>, <<"x">>}

SecondEntries ==
    {<<>>,
     <<"&", "l", "a", "y", "e", "r", "=", "a">>,
     <<"&", "n", "=", "1", ".", "5">>,
     <<"&", "y">>}

UrlParamTexts ==
    {<<"h", "t", "t", "p", ":", "/", "/", "h", "/", "a", "?">>
         \o key \o <<"=">> \o value \o second :
        key \in QueryKeys, value \in QueryValues, second \in SecondEntries}

UrlParamsInit ==
    /\ pc = "ready"
    /\ specInput \in {StringInput(text) : text \in UrlParamTexts}
    /\ files = NoFile
    /\ options = None
    /\ normalized = None
    /\ artifacts = None
    /\ InsideParserIdle
    /\ SanitizerIdle
    /\ HostsIdle

SpecUrlParams == UrlParamsInit /\ [][AcquireNext]_vars

\* the entries of the query of a URL text, as written: the pieces between
\* the '&' after the '?', each cut at its first '=', '+' being a space
WrittenEntries(text) ==
    LET query  == SubSeq(text, IndexOf(text, "?") + 1, Len(text))
        pieces == Split(query, "&")
        Spaced(t) == [i \in DOMAIN t |-> IF t[i] = "+" THEN " " ELSE t[i]]
    IN  [i \in DOMAIN pieces |->
            IF IndexOf(pieces[i], "=") = 0
            THEN [key |-> Spaced(pieces[i]), value |-> <<>>]
            ELSE [key   |-> Spaced(SubSeq(pieces[i], 1, IndexOf(pieces[i], "=") - 1)),
                  value |-> Spaced(SubSeq(pieces[i], IndexOf(pieces[i], "=") + 1,
                                          Len(pieces[i])))]]

\* a decimal numeral, possibly signed, possibly with a fraction, possibly
\* with spaces around it
IsNumeral(value) ==
    \E first, last \in DOMAIN value :
        /\ first <= last
        /\ \A i \in DOMAIN value : (i < first \/ i > last) => value[i] = " "
        /\ \E from \in first..last :
               /\ from = first \/ (from = first + 1 /\ value[first] \in {"+", "-"})
               /\ \A i \in from..last : value[i] \in DigitChars \cup {"."}
               /\ Cardinality({i \in from..last : value[i] = "."}) <= 1
               /\ \E i \in from..last : value[i] \in DigitChars
\* the numeral has no non-zero digit after the point
IsWhole(value) ==
    \A i \in DOMAIN value :
        (\E j \in 1..(i - 1) : value[j] = ".") => value[i] \in {"0", " "}

ClaimedType(value) ==
    IF value = <<"t", "r", "u", "e">> \/ value = <<"f", "a", "l", "s", "e">> THEN "boolean"
    ELSE IF IsNumeral(value) THEN (IF IsWhole(value) THEN "integer" ELSE "number")
    ELSE "string"

ClaimedRequired(key, value) ==
    \/ Len(value) >= 2 /\ value[1] = "[" /\ value[Len(value)] = "]"
    \/ key \in {<<"k", "e", "y">>, <<"l", "a", "y", "e", "r">>, <<"x">>, <<"y">>}

UrlParametersOf(document) == document.paths[1].value[1].value.parameters[1]

\* C11: every query entry of the URL yields one query parameter, in URL
\* order, of type boolean for the values true and false, integer or number
\* for a numeral (integer when it is whole), string otherwise; it is required
\* exactly when its value is a bracketed placeholder or its name is key,
\* layer, x or y.
C11_UrlParameters ==
    pc = "normalized" =>
        LET written    == WrittenEntries(specInput.text)
            parameters == UrlParametersOf(normalized.value[1])
        IN  /\ Len(parameters) = Len(written)
            /\ \A i \in DOMAIN written :
                   /\ parameters[i].name = written[i].key
                   /\ parameters[i].in = "query"
                   /\ parameters[i].schema.type = ClaimedType(written[i].value)
                   /\ parameters[i].required =
                          ClaimedRequired(written[i].key, written[i].value)

(***************************************************************************)
(* The CLI: generateAndWrite                                               *)
(***************************************************************************)
\* whether pattern occurs in str at position i
OccursAt(str, pattern, i) ==
    i + Len(pattern) - 1 <= Len(str) /\ SubSeq(str, i, i + Len(pattern) - 1) = pattern

\* String.prototype.replace(pattern, by) for a string pattern: the first
\* occurrence is replaced
ReplaceText(str, pattern, by) ==
    IF \E i \in DOMAIN str : OccursAt(str, pattern, i)
    THEN LET k == CHOOSE i \in DOMAIN str :
                      OccursAt(str, pattern, i) /\ \A j \in 1..(i - 1) : ~OccursAt(str, pattern, j)
         IN  SubSeq(str, 1, k - 1) \o by \o SubSeq(str, k + Len(pattern), Len(str))
    ELSE str

\* outputFile.replace('.ts', '-example.ts')
ExampleFileOf(outputFile) ==
    ReplaceText(outputFile, <<".", "t", "s">>,
                <<"-", "e", "x", "a", "m", "p", "l", "e", ".", "t", "s">>)

\* the options generateAndWrite passes to generateClientArtifacts
CliOptions(args) ==
    [includeExample |-> Some(TRUE),
     apiKey         |-> args.apiKey,
     outputFileName |-> Some(args.outputFile)]

\* one writeFileSync call
Write(file, content) == [file |-> file, content |-> content]

\* the writeFileSync calls of generateAndWrite that return, given the
\* artifacts and the number of the write the disk refuses (0: none)
WritesOf(args, result) ==
    LET planned == <<Write(args.outputFile, result.client)>>
                       \o (IF IsDefined(result.example)
                           THEN <<Write(ExampleFileOf(args.outputFile), result.example)>>
                           ELSE <<>>)
    IN  IF args.failingWrite \in DOMAIN planned
        THEN SubSeq(planned, 1, args.failingWrite - 1)
        ELSE planned

\* the status of the process after generateAndWrite: 1 from the catch block,
\* 0 when the function returns and nothing is left to run
ExitCodeOf(args, result) ==
    IF result.threw THEN 1
    ELSE IF args.failingWrite = 1 \/ (args.failingWrite = 2 /\ IsDefined(result.example))
    THEN 1
    ELSE 0

\* generateAndWrite(input, outputFile, apiKey)
GenerateAndWrite(args) ==
    /\ specInput' = StringInput(args.input)
    /\ options' = CliOptions(args)
    /\ Generation(specInput', options')
    /\ writes' = IF artifacts'.threw THEN writes
                 ELSE writes \o WritesOf(args, artifacts')
    /\ exitCode' = Some(ExitCodeOf(args, artifacts'))
    /\ pc' = "cli done"
    /\ UNCHANGED <<files, resolved, rerunVars, generatorVars, sanitizerVars,
                   clientVars, serverVars>>

\* nonInteractiveMode: generateAndWrite on the arguments of the command line
CallGenerateAndWrite ==
    /\ pc = "cli"
    /\ GenerateAndWrite(cliArgs)
    /\ UNCHANGED cliArgs

CliInputs ==
    {<<"h", "t", "t", "p", ":", "/", "/", "h", "/", "a", "?", "k", "e", "y", "=", "[", "t", "]">>,
     <<"a", ".", "n", "z">>,
     <<"d", "/", "a", ".", "j", "s", "o", "n">>}

CliOutputFiles == {<<"c", ".", "t", "s">>, <<"o", "u", "t">>}

CliArguments ==
    {[input |-> input, outputFile |-> outputFile, apiKey |-> apiKey,
      failingWrite |-> failingWrite] :
        input \in CliInputs, outputFile \in CliOutputFiles,
        apiKey \in {None, Some(<<"s", "k">>)}, failingWrite \in 0..2}

\* the CLI is started on a file system; nothing has been written
CliInit ==
    /\ pc = "cli"
    /\ cliArgs \in CliArguments
    /\ files \in FileStates
    /\ writes = <<>>
    /\ exitCode = None
    /\ ClientIdle
    /\ ServerIdle
    /\ specInput = None
    /\ options = None
    /\ normalized = None
    /\ artifacts = None
    /\ InsideParserIdle
    /\ SanitizerIdle

(***************************************************************************)
(* The two callers of the library: a program that calls                    *)
(* generateClientArtifacts, and the CLI                                    *)
(***************************************************************************)
EntryInit == GenerateInit \/ CliInit

EntryNext == CallGenerateClientArtifacts \/ CallGenerateAndWrite

SpecEntry == EntryInit /\ [][EntryNext]_vars

\* the input is an object without paths, or names (not being an http URL) a
\* file that is missing, is not JSON or holds an object without paths
Malformed(input, file) ==
    IF input.type = "string"
    THEN /\ ~HttpUrlText(input.text)
         /\ ~file.exists \/ ~file.validJson \/ ~file.content.hasPaths
    ELSE ~input.object.hasPaths

DefaultMaxRetries == 3
DefaultRetryDelay == 1000

\* the largest retry count a caller configures
MaxRetries == 2

\* an optional string that is neither undefined nor empty
Truthy(opt) == IsDefined(opt) /\ opt[1] # <<>>

\* the constructor: config.maxRetries replaces the default unless undefined
NewClient(config) ==
    [apiKey               |-> IF Truthy(config.apiKey) THEN config.apiKey ELSE None,
     bearerToken          |-> IF Truthy(config.bearerToken) THEN config.bearerToken ELSE None,
     requestInterceptors  |-> <<>>,
     responseInterceptors |-> <<>>,
     maxRetries           |-> OrElse(config.maxRetries, DefaultMaxRetries),
     retryDelay           |-> DefaultRetryDelay]

\* an exception: whether it is an Error object, the status property it
\* carries if it has one, and where it was thrown
Exception(isError, status, origin) ==
    [isError |-> isError, status |-> status, origin |-> origin]

\* what an interceptor may throw: an Error, an Error with a status property,
\* a value that is not an Error
InterceptorExceptions(origin) ==
    {Exception(TRUE, None, origin),
     Exception(TRUE, Some(403), origin),
     Exception(FALSE, Some(403), origin)}

\* the statuses of the responses that are not ok
ErrorStatuses == {404, 503}

\* what one attempt may throw before the response interceptors run: fetch
\* rejects, the response is not ok, response.json() rejects
FetchExceptions ==
    {Exception(TRUE, None, "network"), Exception(TRUE, None, "json")}
        \cup {Exception(TRUE, Some(status), "http") : status \in ErrorStatuses}

\* one entry of the record of what the call did: an interceptor applied to
\* what it received (marks), a fetch of the request (marks), the exception
\* that ended an attempt (error), a timer set (delay)
Event(type, attempt, tag, marks, delay, error) ==
    [type |-> type, attempt |-> attempt, tag |-> tag, marks |-> marks,
     delay |-> delay, error |-> error]

\* the ApiResult an endpoint method resolves to
Success(data) == [tag |-> "Success", data |-> data, status |-> 0]
ApiError(status) == [tag |-> "ApiError", data |-> <<>>, status |-> status]

\* the catch block of the endpoint method
ResultOfError(error) ==
    IF error.isError /\ IsDefined(error.status)
    THEN ApiError(error.status[1])
    ELSE ApiError(500)

\* the call in flight: where it stands, the request built so far, the next
\* interceptor, the attempt counter, lastError, the data processed so far,
\* and, when it is over, what internalFetch threw and the promise's value
InFlight(pos, request, index, attempt, lastError, data, thrown, result) ==
    [pos |-> pos, request |-> request, index |-> index, attempt |-> attempt,
     lastError |-> lastError, data |-> data, thrown |-> thrown, result |-> result]

\* internalFetch: the headers of the request
HeadersOf(c) ==
    <<"Content-Type">>
        \o (IF Truthy(c.apiKey) THEN <<"X-API-Key">> ELSE <<>>)
        \o (IF Truthy(c.bearerToken) THEN <<"Authorization">> ELSE <<>>)

\* internalFetch returns the data and the endpoint method wraps it
Return(current, data) ==
    [current EXCEPT !.pos = "done", !.data = data, !.result = Some(Success(data))]

\* internalFetch throws and the endpoint method catches
Throw(current, error) ==
    [current EXCEPT !.pos = "done", !.thrown = Some(error),
                    !.result = Some(ResultOfError(error))]

\* the retry loop is entered or re-entered with this attempt number: the
\* next fetch, or past the loop `throw lastError || new Error('Unknown error')`
EnterLoop(c, current, attempt) ==
    IF attempt <= c.maxRetries
    THEN [current EXCEPT !.pos = "fetching", !.attempt = attempt]
    ELSE Throw([current EXCEPT !.attempt = attempt],
               OrElse(current.lastError, Exception(TRUE, None, "unknown")))

\* the loop over the request interceptors goes on with the one at index, or
\* is over
NextRequestInterceptor(c, current, index) ==
    IF index <= Len(c.requestInterceptors)
    THEN [current EXCEPT !.pos = "request interceptors", !.index = index]
    ELSE EnterLoop(c, [current EXCEPT !.index = index], 0)

\* the loop over the response interceptors goes on with the one at index, or
\* is over and the processed data is returned
NextResponseInterceptor(c, current, index) ==
    IF index <= Len(c.responseInterceptors)
    THEN [current EXCEPT !.pos = "response interceptors", !.index = index]
    ELSE Return(current, current.data)

\* `error instanceof Error ? error : new Error(String(error))`
AsError(error) ==
    IF error.isError THEN error ELSE Exception(TRUE, None, error.origin)

\* a backoff that does not grow
Backoff_Constant(c, attempt) == c.retryDelay

\* the delay of the timer set after the failed attempt
Backoff(c, attempt) == c.retryDelay * 2^attempt

\* a catch block that keeps the first exception instead of the last
Failed_KeepFirstError(c, current, error) ==
    LET kept == IF IsDefined(current.lastError) THEN current.lastError[1] ELSE AsError(error)
    IN  IF current.attempt < c.maxRetries
        THEN [current EXCEPT !.pos = "waiting", !.lastError = Some(kept)]
        ELSE Throw([current EXCEPT !.lastError = Some(kept)], kept)

\* the catch block of the retry loop: a timer is set, or lastError is thrown
Failed(c, current, error) ==
    IF current.attempt < c.maxRetries
    THEN [current EXCEPT !.pos = "waiting", !.lastError = Some(AsError(error))]
    ELSE Throw([current EXCEPT !.lastError = Some(AsError(error))], AsError(error))

\* what the catch block of the retry loop adds to the record
FailureEvents(c, current, error) ==
    <<Event("failure", current.attempt, "", <<>>, 0, Some(error))>>
        \o (IF current.attempt < c.maxRetries
            THEN <<Event("wait", current.attempt, "", <<>>,
                         Backoff(c, current.attempt), None)>>
            ELSE <<>>)

\* the functions an application registers as interceptors
InterceptorTags == {"p", "q"}

\* the delays an application passes to setRetryConfig
RetryDelays == {250}

ClientConfigs ==
    [apiKey : {None, Some(<<"k">>)}, bearerToken : {None},
     maxRetries : {None} \cup {Some(m) : m \in {0, MaxRetries}}]

ClientInit ==
    /\ pc = "client ready"
    /\ \E config \in ClientConfigs : apiClient = Some(NewClient(config))
    /\ call = None
    /\ events = <<>>
    /\ CliIdle
    /\ ServerIdle
    /\ EntryIdle
    /\ InsideParserIdle
    /\ SanitizerIdle

notClient == <<insideParser, sanitizerVars, entryVars, cliVars, serverVars>>

\* a registration that puts the function in front of the others
AddRequestInterceptor_Unshift(tag) ==
    /\ pc = "client ready"
    /\ tag \notin Range(apiClient[1].requestInterceptors)
    /\ apiClient' = Some([apiClient[1] EXCEPT !.requestInterceptors = <<tag>> \o @])
    /\ UNCHANGED <<pc, call, events, notClient>>

\* an application registers a function it has not registered yet
AddRequestInterceptor(tag) ==
    /\ pc = "client ready"
    /\ tag \notin Range(apiClient[1].requestInterceptors)
    /\ apiClient' = Some([apiClient[1] EXCEPT !.requestInterceptors = Append(@, tag)])
    /\ UNCHANGED <<pc, call, events, notClient>>

AddResponseInterceptor(tag) ==
    /\ pc = "client ready"
    /\ tag \notin Range(apiClient[1].responseInterceptors)
    /\ apiClient' = Some([apiClient[1] EXCEPT !.responseInterceptors = Append(@, tag)])
    /\ UNCHANGED <<pc, call, events, notClient>>

\* delay is the default when the argument is omitted
SetRetryConfig(maxRetries, delay) ==
    /\ pc = "client ready"
    /\ apiClient' = Some([apiClient[1] EXCEPT
                              !.maxRetries = maxRetries,
                              !.retryDelay = OrElse(delay, DefaultRetryDelay)])
    /\ apiClient' # apiClient
    /\ UNCHANGED <<pc, call, events, notClient>>

\* an endpoint method is called: internalFetch builds the request and
\* reaches its first await
CallEndpoint ==
    /\ pc = "client ready"
    /\ call' = Some(NextRequestInterceptor(
                        apiClient[1],
                        InFlight("start", [headers |-> HeadersOf(apiClient[1]), marks |-> <<>>],
                                 1, 0, None, <<>>, None, None),
                        1))
    /\ pc' = "client calling"
    /\ UNCHANGED <<apiClient, events, notClient>>

\* `request = await interceptor(request)`: an exception leaves internalFetch
RunRequestInterceptor ==
    /\ pc = "client calling"
    /\ call[1].pos = "request interceptors"
    /\ LET c == apiClient[1]
           current == call[1]
           tag == c.requestInterceptors[current.index]
       IN  /\ events' = Append(events, Event("request interceptor", current.attempt, tag,
                                             current.request.marks, 0, None))
           /\ \/ call' = Some(NextRequestInterceptor(
                                  c, [current EXCEPT !.request.marks = Append(@, tag)],
                                  current.index + 1))
              \/ \E error \in InterceptorExceptions("request interceptor") :
                    call' = Some(Throw(current, error))
    /\ UNCHANGED <<pc, apiClient, notClient>>

\* `await fetch(url, request)` and the reading of the response
Fetch ==
    /\ pc = "client calling"
    /\ call[1].pos = "fetching"
    /\ LET c == apiClient[1]
           current == call[1]
           fetched == Event("fetch", current.attempt, "", current.request.marks, 0, None)
       IN  \/ /\ call' = Some(NextResponseInterceptor(c, [current EXCEPT !.data = <<>>], 1))
              /\ events' = Append(events, fetched)
           \/ \E error \in FetchExceptions :
                 /\ call' = Some(Failed(c, current, error))
                 /\ events' = Append(events, fetched) \o FailureEvents(c, current, error)
    /\ UNCHANGED <<pc, apiClient, notClient>>

\* a response interceptor whose exception leaves internalFetch
RunResponseInterceptor_Uncaught ==
    /\ pc = "client calling"
    /\ call[1].pos = "response interceptors"
    /\ LET c == apiClient[1]
           current == call[1]
           tag == c.responseInterceptors[current.index]
           applied == Event("response interceptor", current.attempt, tag,
                            current.data, 0, None)
       IN  \/ /\ call' = Some(NextResponseInterceptor(
                                  c, [current EXCEPT !.data = Append(@, tag)],
                                  current.index + 1))
              /\ events' = Append(events, applied)
           \/ \E error \in InterceptorExceptions("response interceptor") :
                 /\ call' = Some(Throw(current, AsError(error)))
                 /\ events' = Append(events, applied)
                                  \o <<Event("failure", current.attempt, "", <<>>, 0,
                                              Some(error))>>
    /\ UNCHANGED <<pc, apiClient, notClient>>

\* `processedData = await interceptor(response, processedData)`: an
\* exception is caught by the retry loop
RunResponseInterceptor ==
    /\ pc = "client calling"
    /\ call[1].pos = "response interceptors"
    /\ LET c == apiClient[1]
           current == call[1]
           tag == c.responseInterceptors[current.index]
           applied == Event("response interceptor", current.attempt, tag,
                            current.data, 0, None)
       IN  \/ /\ call' = Some(NextResponseInterceptor(
                                  c, [current EXCEPT !.data = Append(@, tag)],
                                  current.index + 1))
              /\ events' = Append(events, applied)
           \/ \E error \in InterceptorExceptions("response interceptor") :
                 /\ call' = Some(Failed(c, current, error))
                 /\ events' = Append(events, applied) \o FailureEvents(c, current, error)
    /\ UNCHANGED <<pc, apiClient, notClient>>

\* the timer of the backoff fires: `attempt++` and the loop condition
TimerFires ==
    /\ pc = "client calling"
    /\ call[1].pos = "waiting"
    /\ call' = Some(EnterLoop(apiClient[1], call[1], call[1].attempt + 1))
    /\ UNCHANGED <<pc, apiClient, events, notClient>>

ClientNext ==
    \/ \E tag \in InterceptorTags : AddRequestInterceptor(tag)
    \/ \E tag \in InterceptorTags : AddResponseInterceptor(tag)
    \/ \E maxRetries \in -1 .. MaxRetries, delay \in {None} \cup {Some(d) : d \in RetryDelays} :
          SetRetryConfig(maxRetries, delay)
    \/ CallEndpoint
    \/ RunRequestInterceptor
    \/ Fetch
    \/ RunResponseInterceptor
    \/ TimerFires

SpecClient == ClientInit /\ [][ClientNext]_vars

\* the positions in the record of the network attempts, of the exceptions
\* that ended an attempt, and of the timers
Fetches == {i \in DOMAIN events : events[i].type = "fetch"}
Failures == {i \in DOMAIN events : events[i].type = "failure"}
Waits == {i \in DOMAIN events : events[i].type = "wait"}

Greatest(S) == CHOOSE x \in S : \A y \in S : y <= x

\* the attempt that started at position i of the record failed
AttemptFailed(i) ==
    \E k \in Failures : k > i /\ events[k].attempt = events[i].attempt

\* the call is over
CallDone == IsDefined(call) /\ call[1].pos = "done"

(***************************************************************************)
(* C13: one call of internalFetch makes at most maxRetries + 1 network     *)
(* attempts; an attempt is made only after every earlier one has failed    *)
(* (so none follows a successful one, and a call that returned data made   *)
(* its last attempt successfully); and when every attempt has failed the   *)
(* call throws the exception of the last attempt, not an earlier one.      *)
(***************************************************************************)
C13_BoundedRetries ==
    IsDefined(call) =>
        LET c == apiClient[1]
            current == call[1]
        IN  /\ Cardinality(Fetches) <= Maximum(c.maxRetries + 1, 0)
            /\ \A i, j \in Fetches : i < j => \E k \in Failures : i < k /\ k < j
            /\ \A i \in Fetches : events[i].attempt = Cardinality({j \in Fetches : j < i})
            /\ (CallDone /\ current.thrown = None) =>
                    /\ Fetches # {}
                    /\ ~AttemptFailed(Greatest(Fetches))
            /\ (CallDone /\ Fetches # {} /\ \A i \in Fetches : AttemptFailed(i)) =>
                    /\ IsDefined(current.thrown)
                    /\ LET last == events[Greatest(Failures)]
                       IN  /\ last.attempt = events[Greatest(Fetches)].attempt
                           /\ current.thrown[1].origin = last.error[1].origin
                           /\ last.error[1].isError => current.thrown[1] = last.error[1]

\* every attempt the configuration allows was made and failed, the last one
\* differently from the first
C13_Witness ==
    /\ CallDone
    /\ apiClient[1].maxRetries >= 1
    /\ Cardinality(Fetches) = apiClient[1].maxRetries + 1
    /\ IsDefined(call[1].thrown)
    /\ events[Greatest(Failures)].error # events[CHOOSE k \in Failures : \A l \in Failures : k <= l].error

\* delay doubled k times
RECURSIVE Doubled(_, _)
Doubled(delay, k) == IF k = 0 THEN delay ELSE 2 * Doubled(delay, k - 1)

(***************************************************************************)
(* C14: a failed attempt k < maxRetries is followed at once by a timer of  *)
(* retryDelay * 2^k, and attempt k + 1 starts only after it; a timer is    *)
(* set at no other time: there is none before the first attempt and none   *)
(* after the failed attempt number maxRetries.                             *)
(***************************************************************************)
C14_ExponentialBackoff ==
    IsDefined(call) =>
        LET c == apiClient[1]
        IN  /\ \A i \in Failures :
                  IF events[i].attempt < c.maxRetries
                  THEN /\ i + 1 \in Waits
                       /\ events[i + 1].delay = Doubled(c.retryDelay, events[i].attempt)
                  ELSE i = Len(events)
            /\ \A w \in Waits : w - 1 \in Failures /\ events[w - 1].attempt < c.maxRetries
            /\ \A j \in Fetches :
                  Cardinality({w \in Waits : w < j}) = events[j].attempt

\* three attempts failed, with the timers 250 and 500 between them and none
\* after the last
C14_Witness ==
    /\ CallDone
    /\ apiClient[1].maxRetries = 2
    /\ apiClient[1].retryDelay = 250
    /\ Cardinality(Failures) = 3
    /\ {events[w].delay : w \in Waits} = {250, 500}
    /\ events[Len(events)].type = "failure"

\* a is the beginning of b
IsPrefixOf(a, b) == Len(a) <= Len(b) /\ SubSeq(b, 1, Len(a)) = a

\* the positions in the record of the interceptor applications of one kind
\* in one attempt
Applications(type, attempt) ==
    {i \in DOMAIN events : events[i].type = type /\ events[i].attempt = attempt}

\* the applications at these positions go through the list in its order,
\* each interceptor receiving what the ones before it have returned
InListOrder(positions, list) ==
    \A i \in positions :
        LET k == Cardinality({j \in positions : j <= i})
        IN  /\ k <= Len(list)
            /\ events[i].tag = list[k]
            /\ events[i].marks = SubSeq(list, 1, k - 1)

\* within a call the interceptors are applied in list order: the request
\* interceptors once, all of them before the first fetch, the response
\* interceptors in every attempt, all of them before data is returned
AppliedInListOrder ==
    IsDefined(call) =>
        LET c == apiClient[1]
        IN  /\ InListOrder(Applications("request interceptor", 0), c.requestInterceptors)
            /\ \A attempt \in 1 .. Len(events) :
                  Applications("request interceptor", attempt) = {}
            /\ \A j \in Fetches :
                  /\ events[j].marks = c.requestInterceptors
                  /\ \A i \in Applications("request interceptor", 0) : i < j
            /\ \A attempt \in 0 .. Len(events) :
                  InListOrder(Applications("response interceptor", attempt),
                              c.responseInterceptors)
            /\ (CallDone /\ call[1].thrown = None) =>
                  call[1].result[1].data = c.responseInterceptors

\* a step keeps every registered interceptor at its place in its list
RegistrationsKept ==
    /\ IsDefined(apiClient) /\ IsDefined(apiClient')
    /\ IsPrefixOf(apiClient[1].requestInterceptors, apiClient'[1].requestInterceptors)
    /\ IsPrefixOf(apiClient[1].responseInterceptors, apiClient'[1].responseInterceptors)

(***************************************************************************)
(* C15: every registration appends to its list and leaves the earlier      *)
(* entries of both lists where they are, so the lists are the registration *)
(* orders; and within a call the request interceptors and, in every        *)
(* attempt, the response interceptors are applied in list order, each      *)
(* receiving what the previous one returned.                               *)
(***************************************************************************)
C15_InterceptorOrder == []AppliedInListOrder /\ [][RegistrationsKept]_vars

\* a call through two request and two response interceptors that returned
\* data at its second attempt
C15_Witness ==
    /\ CallDone
    /\ call[1].thrown = None
    /\ apiClient[1].requestInterceptors = <<"q", "p">>
    /\ apiClient[1].responseInterceptors = <<"p", "q">>
    /\ Cardinality(Fetches) = 2
    /\ Applications("response interceptor", 0) # {}

\* the status the claim gives the ApiError of a call that ended with this
\* exception
ClaimedStatus(error) ==
    IF error.origin = "http" THEN error.status[1] ELSE 500

(***************************************************************************)
(* C16: a finished call of an endpoint method has resolved to an           *)
(* ApiResult: Success exactly when internalFetch returned data, otherwise  *)
(* ApiError with the HTTP status of the final failed response when the     *)
(* call ended on a response that was not ok, and with 500 when it ended on *)
(* any other failure (network error, interceptor exception).               *)
(***************************************************************************)
C16_ApiResult ==
    CallDone =>
        LET current == call[1]
        IN  /\ IsDefined(current.result)
            /\ current.result[1].tag \in {"Success", "ApiError"}
            /\ current.result[1].tag = "Success" <=> current.thrown = None
            /\ current.thrown = None => current.result[1].data = current.data
            /\ IsDefined(current.thrown) =>
                  current.result[1].status = ClaimedStatus(current.thrown[1])

(***************************************************************************)
(* The HTTP front end (server.js): POST /api/generate.  Every request has  *)
(* the closure of its own handler call: the body received so far, the      *)
(* specInput chosen, and what generateClientArtifacts made for it (its     *)
(* parser with the schema table, its output).  Node runs one callback at   *)
(* a time, to its next await: a data event, the end event up to the fetch  *)
(* of a hosted spec or to the response, the settling of that fetch.  The   *)
(* callbacks of different requests interleave in any order.                *)
(* The body text is kept as the pieces it arrives in, one per field of the *)
(* JSON object; descriptions and body schemas of the built-in specs are    *)
(* left out.                                                               *)
(***************************************************************************)
Requests == {"r1", "r2"}

\* API_SPECS (shortened URLs)
ApiSpecs ==
    [github |-> <<"h", "t", "t", "p", "s", ":", "/", "/", "g", "/", "a", "p", "i", ".", "j", "s", "o", "n">>,
     stripe |-> <<"h", "t", "t", "p", "s", ":", "/", "/", "s", "/", "s", "p", "e", "c", "3", ".", "j", "s", "o", "n">>]

\* one chunk of a request body: the text of one field
Piece(key, value) == [key |-> key, value |-> value]

\* the body text a client sends for these fields (undefined ones are left out
\* of the object, their piece holds no text)
BodyText(payload) ==
    <<Piece("apiKey", payload.apiKey), Piece("apiType", payload.apiType),
      Piece("customUrl", payload.customUrl)>>

\* JSON.parse(body): the object of a well-formed text, nothing for any other
ParseBody(body) ==
    IF /\ Len(body) = 3
       /\ body[1].key = "apiKey" /\ body[2].key = "apiType" /\ body[3].key = "customUrl"
    THEN Some([apiKey |-> body[1].value, apiType |-> body[2].value,
               customUrl |-> body[3].value])
    ELSE None

\* one path of a built-in spec
InlinePath(path, method, operationId, parameters, requestBody) ==
    Entry(path, <<Entry(method, [Operation(Some(operationId), parameters)
                                    EXCEPT !.requestBody = requestBody])>>)

InlineSpec(title, baseUrl, paths) ==
    [Document(paths) EXCEPT !.info.title = title, !.servers = <<[url |-> baseUrl]>>]

JsonBody == Some([required |-> TRUE])

\* the specs the handler builds itself
BuiltInSpec(apiType) ==
    CASE apiType = "openai" ->
            InlineSpec(<<"O", "p", "e", "n", "A", "I", " ", "A", "P", "I">>, <<"h", "t", "t", "p", "s", ":", "/", "/", "a", "p", "i", ".", "o", "p", "e", "n", "a", "i", ".", "c", "o", "m", "/", "v", "1">>,
                       <<InlinePath(<<"/", "c", "h", "a", "t", "/", "c", "o", "m", "p", "l", "e", "t", "i", "o", "n", "s">>, "post", <<"c", "r", "e", "a", "t", "e", "C", "h", "a", "t", "C", "o", "m", "p", "l", "e", "t", "i", "o", "n">>, None, JsonBody),
                         InlinePath(<<"/", "c", "o", "m", "p", "l", "e", "t", "i", "o", "n", "s">>, "post", <<"c", "r", "e", "a", "t", "e", "C", "o", "m", "p", "l", "e", "t", "i", "o", "n">>, None, JsonBody)>>)
      [] apiType = "google" ->
            InlineSpec(<<"G", "o", "o", "g", "l", "e", " ", "A", "P", "I", "s">>, <<"h", "t", "t", "p", "s", ":", "/", "/", "w", "w", "w", ".", "g", "o", "o", "g", "l", "e", "a", "p", "i", "s", ".", "c", "o", "m">>,
                       <<InlinePath(<<"/">>, "get", <<"g", "o", "o", "g", "l", "e", "A", "p", "i", "R", "e", "q", "u", "e", "s", "t">>, None, None)>>)
      [] apiType = "aws" ->
            InlineSpec(<<"A", "W", "S", " ", "A", "P", "I">>, <<"h", "t", "t", "p", "s", ":", "/", "/", "a", "p", "i", ".", "a", "w", "s", ".", "a", "m", "a", "z", "o", "n", ".", "c", "o", "m">>,
                       <<InlinePath(<<"/">>, "post", <<"a", "w", "s", "A", "p", "i", "R", "e", "q", "u", "e", "s", "t">>, None, None)>>)
      [] apiType = "azure" ->
            InlineSpec(<<"A", "z", "u", "r", "e", " ", "A", "P", "I">>, <<"h", "t", "t", "p", "s", ":", "/", "/", "m", "a", "n", "a", "g", "e", "m", "e", "n", "t", ".", "a", "z", "u", "r", "e", ".", "c", "o", "m">>,
                       <<InlinePath(<<"/">>, "get", <<"a", "z", "u", "r", "e", "A", "p", "i", "R", "e", "q", "u", "e", "s", "t">>, None, None)>>)
      [] apiType = "slack" ->
            InlineSpec(<<"S", "l", "a", "c", "k", " ", "A", "P", "I">>, <<"h", "t", "t", "p", "s", ":", "/", "/", "s", "l", "a", "c", "k", ".", "c", "o", "m", "/", "a", "p", "i">>,
                       <<InlinePath(<<"/", "c", "h", "a", "t", ".", "p", "o", "s", "t", "M", "e", "s", "s", "a", "g", "e">>, "post", <<"p", "o", "s", "t", "M", "e", "s", "s", "a", "g", "e">>, None, JsonBody)>>)
      [] apiType = "discord" ->
            InlineSpec(<<"D", "i", "s", "c", "o", "r", "d", " ", "A", "P", "I">>, <<"h", "t", "t", "p", "s", ":", "/", "/", "d", "i", "s", "c", "o", "r", "d", ".", "c", "o", "m", "/", "a", "p", "i", "/", "v", "1", "0">>,
                       <<InlinePath(<<"/", "c", "h", "a", "n", "n", "e", "l", "s", "/", "{", "c", "h", "a", "n", "n", "e", "l", "I", "d", "}", "/", "m", "e", "s", "s", "a", "g", "e", "s">>, "post", <<"c", "r", "e", "a", "t", "e", "M", "e", "s", "s", "a", "g", "e">>,
                                    Some(<<Param(<<"c", "h", "a", "n", "n", "e", "l", "I", "d">>, "path", TRUE)>>), JsonBody)>>)

\* apiKey.startsWith(prefix)
StartsWith(text, prefix) == IsPrefixOf(prefix, text)

\* a JSON number as the value of a field: it has no startsWith method
NumberValue == <<"number">>

IsString(value) == value # NumberValue

\* an if-chain in which the key's prefix decides whatever the apiType
Branch_PrefixFirst(payload) ==
    LET key == payload.apiKey[1]
        type == payload.apiType
    IN  IF ~IsString(key) THEN "TypeError"
        ELSE IF StartsWith(key, <<"s", "k", "-">>) \/ type = Some("openai")
        THEN "openai"
        ELSE IF StartsWith(key, <<"g", "h", "p", "_">>) \/ type = Some("github")
        THEN "github"
        ELSE IF \/ StartsWith(key, <<"s", "k", "_", "l", "i", "v", "e", "_">>)
                \/ StartsWith(key, <<"s", "k", "_", "t", "e", "s", "t", "_">>)
                \/ type = Some("stripe")
        THEN "stripe"
        ELSE IF type \in {Some("google"), Some("aws"), Some("azure"), Some("slack"),
                          Some("discord")}
        THEN type[1]
        ELSE IF type = Some("custom") /\ Truthy(payload.customUrl)
        THEN "custom"
        ELSE "none"

\* which branch of the handler's if-chain the request takes; evaluating the
\* chain throws a TypeError when apiKey.startsWith is not a function
Branch(payload) ==
    LET key == payload.apiKey[1]
        type == payload.apiType
        auto == type = Some("auto")
    IN  IF auto /\ ~IsString(key) THEN "TypeError"
        ELSE IF type = Some("openai") \/ (auto /\ StartsWith(key, <<"s", "k", "-">>))
        THEN "openai"
        ELSE IF type = Some("github") \/ (auto /\ StartsWith(key, <<"g", "h", "p", "_">>))
        THEN "github"
        ELSE IF type = Some("stripe")
                \/ (auto /\ (StartsWith(key, <<"s", "k", "_", "l", "i", "v", "e", "_">>) \/ StartsWith(key, <<"s", "k", "_", "t", "e", "s", "t", "_">>)))
        THEN "stripe"
        ELSE IF type \in {Some("google"), Some("aws"), Some("azure"), Some("slack"),
                          Some("discord")}
        THEN type[1]
        ELSE IF type = Some("custom") /\ Truthy(payload.customUrl)
        THEN "custom"
        ELSE "none"

\* what res.writeHead and res.end send
Response(status, error, clientCode, fileName, className) ==
    [status |-> status, error |-> error, clientCode |-> clientCode,
     fileName |-> fileName, className |-> className]

ErrorResponse(status, message) == Response(status, Some(message), None, None, None)

\* the closure of one handler call
Closure(pos, body, apiKey, fetching, input, parser, output, response) ==
    [pos |-> pos, body |-> body, apiKey |-> apiKey, fetching |-> fetching, specInput |-> input,
     parser |-> parser, output |-> output, response |-> response,
     heads |-> <<>>, ends |-> 0]

Absent == Closure("absent", <<>>, None, None, None, None, None, None)

\* res.writeHead(status, ...); res.end(...): heads holds the status of every
\* writeHead call on the response, ends counts its end calls
Respond(closure, response) ==
    [closure EXCEPT !.pos = "responded", !.response = Some(response),
                    !.heads = Append(@, response.status), !.ends = @ + 1]

\* the options the handler passes to generateClientArtifacts
ServerOptions(apiKey) ==
    [includeExample |-> Some(FALSE), apiKey |-> Some(apiKey),
     outputFileName |-> Some(<<"a", "p", "i", "-", "c", "l", "i", "e", "n", "t", ".", "t", "s">>)]

\* the parser generateClientArtifacts constructs for the call
ParserOf(norm) ==
    IF norm.threw THEN None
    ELSE Some([spec |-> norm.value[1], schemas |-> LoadSchemas(norm.value[1])])

\* the response for what generateClientArtifacts returned or threw
ResponseOf(out) ==
    IF out.threw
    THEN ErrorResponse(500, out.error[1].kind)
    ELSE Response(200, None, out.client,
                  Some([lowerCased |-> out.className[1], suffix |-> "-client.ts"]),
                  out.className)

\* the closure after generateClientArtifacts and the response
Generated(closure, input, norm, out) ==
    Respond([closure EXCEPT !.specInput = Some(input), !.parser = ParserOf(norm),
                            !.output = Some(out)],
            ResponseOf(out))

GenerateAndRespond(closure, input, apiKey, file) ==
    Generated(closure, input, NormalizeSpec(input, file),
              GenerateClientArtifacts(input, ServerOptions(apiKey), file))

\* a writeHead that is not followed by end
Rejected_NoEnd(closure, status, message) ==
    [closure EXCEPT !.pos = "responded", !.response = Some(ErrorResponse(status, message)),
                    !.heads = Append(@, status)]

Rejected(closure, status, message) == Respond(closure, ErrorResponse(status, message))

\* an if-chain whose last branch generates from the customUrl as it is
Route_NoSourceCheck(closure, payload, branch, file) ==
    IF branch = "TypeError" THEN Rejected(closure, 500, "TypeError")
    ELSE IF branch \in {"github", "stripe"}
    THEN [closure EXCEPT !.pos = "fetching", !.fetching = Some(ApiSpecs[branch])]
    ELSE IF branch \in {"custom", "none"}
    THEN GenerateAndRespond(closure, StringInput(OrElse(payload.customUrl, <<>>)),
                            payload.apiKey[1], file)
    ELSE GenerateAndRespond(closure, ObjectInput(BuiltInSpec(branch)),
                            payload.apiKey[1], file)

\* the end handler after the API key check
Route(closure, payload, branch, file) ==
    IF branch = "TypeError" THEN Rejected(closure, 500, "TypeError")
    ELSE IF branch \in {"github", "stripe"}
    THEN [closure EXCEPT !.pos = "fetching", !.fetching = Some(ApiSpecs[branch])]
    ELSE IF branch = "custom"
    THEN GenerateAndRespond(closure, StringInput(payload.customUrl[1]),
                            payload.apiKey[1], file)
    ELSE IF branch = "none"
    THEN Rejected(closure, 400, "Please specify API type or provide a custom URL")
    ELSE GenerateAndRespond(closure, ObjectInput(BuiltInSpec(branch)),
                            payload.apiKey[1], file)

\* the end handler after JSON.parse(body)
Parsed(closure, parsed, file) ==
    IF parsed = None THEN Rejected(closure, 500, "SyntaxError")
    ELSE IF ~Truthy(parsed[1].apiKey) THEN Rejected(closure, 400, "API key is required")
    ELSE Route([closure EXCEPT !.apiKey = parsed[1].apiKey], parsed[1], Branch(parsed[1]), file)

\* what arrives with a request: its method and url, its body text, and
\* whether gui.html can be read when it arrives
Arrival(method, url, gui, text) == [method |-> method, url |-> url, gui |-> gui, text |-> text]

\* the createServer callback, to the response or to `let body = ''`
Handler(closure, arrival) ==
    IF arrival.method = "OPTIONS" THEN Respond(closure, Response(200, None, None, None, None))
    ELSE IF arrival.method = "GET" /\ arrival.url = "/"
    THEN IF arrival.gui THEN Respond(closure, Response(200, None, None, None, None))
         ELSE Rejected(closure, 500, "Error loading GUI")
    ELSE IF arrival.method = "POST" /\ arrival.url = "/api/generate"
    THEN [closure EXCEPT !.pos = "receiving"]
    ELSE Rejected(closure, 404, "Not found")

HandleRequest(reqs, r, arrival) == [reqs EXCEPT ![r] = Handler(Absent, arrival)]

\* a body variable that every handler call shares
OnData_SharedBody(reqs, r, chunk) ==
    [q \in DOMAIN reqs |-> [reqs[q] EXCEPT !.body = Append(@, chunk)]]

\* req.on('data'): `body += chunk.toString()`
OnData(reqs, r, chunk) == [reqs EXCEPT ![r].body = Append(@, chunk)]

\* req.on('end'), to its first await or to the response
OnEnd(reqs, r, file) ==
    [reqs EXCEPT ![r] = Parsed(reqs[r], ParseBody(reqs[r].body), file)]

\* what the fetch of a hosted spec may come to: a rejection, a text that is
\* not JSON, a JSON text
FetchOutcome(kind, object) == [kind |-> kind, object |-> object]

FetchOutcomes ==
    {FetchOutcome("rejected", Document(<<>>)), FetchOutcome("text", Document(<<>>)),
     FetchOutcome("json", StoredDocument), FetchOutcome("json", WithoutPaths)}

\* fetchOpenAPISpec: the parsed object, or the url itself when the text is not
\* JSON
FetchedInput(url, outcome) ==
    IF outcome.kind = "json" THEN ObjectInput(outcome.object) ELSE StringInput(url)

\* the end handler resumes when fetchOpenAPISpec settles
Fetched(closure, outcome, apiKey, file) ==
    IF outcome.kind = "rejected"
    THEN Rejected(closure, 500, "Failed to fetch OpenAPI spec")
    ELSE GenerateAndRespond(closure, FetchedInput(closure.fetching[1], outcome), apiKey, file)

OnFetched(reqs, r, outcome, file) ==
    [reqs EXCEPT ![r] = Fetched(reqs[r], outcome, reqs[r].apiKey[1], file)]

\* the objects the clients post
Payload(apiKey, apiType, customUrl) ==
    [apiKey |-> apiKey, apiType |-> apiType, customUrl |-> customUrl]

ServerUrl == <<"h", "t", "t", "p", ":", "/", "/", "h", "/", "a", "?", "k", "e", "y", "=", "[", "t", "]">>
ServerFile == <<"d", "/", "a", ".", "j", "s", "o", "n">>

ServerPayloads ==
    {Payload(None, Some("openai"), None),
     Payload(Some(<<>>), Some("custom"), Some(ServerUrl)),
     Payload(Some(<<"s", "k", "-", "1">>), Some("auto"), None),
     Payload(Some(<<"g", "h", "p", "_", "1">>), Some("auto"), None),
     Payload(Some(<<"s", "k", "_", "t", "e", "s", "t", "_", "1">>), Some("auto"), None),
     Payload(Some(<<"k">>), Some("auto"), None),
     Payload(Some(NumberValue), Some("auto"), None),
     Payload(Some(NumberValue), Some("slack"), None),
     Payload(Some(<<"s", "k", "_", "l", "i", "v", "e", "_", "1">>), Some("auto"), None),
     Payload(Some(<<"s", "k", "-", "1">>), Some("github"), None),
     Payload(Some(<<"g", "h", "p", "_", "1">>), Some("stripe"), None),
     Payload(Some(<<"s", "k", "_", "t", "e", "s", "t", "_", "1">>), Some("openai"), None),
     Payload(Some(<<"s", "k", "-", "1">>), Some("custom"), Some(ServerUrl)),
     Payload(Some(<<"k">>), Some("google"), None),
     Payload(Some(<<"k">>), Some("aws"), None),
     Payload(Some(<<"k">>), Some("azure"), None),
     Payload(Some(<<"k">>), Some("slack"), None),
     Payload(Some(<<"k">>), Some("discord"), None),
     Payload(Some(<<"k">>), Some("custom"), Some(ServerUrl)),
     Payload(Some(<<"k">>), Some("custom"), Some(ServerFile)),
     Payload(Some(<<"k">>), Some("custom"), None),
     Payload(Some(<<"k">>), None, Some(ServerUrl))}

\* the body texts: one per payload, and one cut short
ServerTexts ==
    {BodyText(payload) : payload \in ServerPayloads}
        \cup {<<Piece("apiKey", Some(<<"k">>)), Piece("apiType", Some("openai"))>>}

\* the requests the clients send
Generate(text) == Arrival("POST", "/api/generate", TRUE, text)

ServerArrivals ==
    {Generate(text) : text \in ServerTexts}
        \cup {Arrival("OPTIONS", "/api/generate", TRUE, <<>>), Arrival("GET", "/", TRUE, <<>>),
              Arrival("GET", "/", FALSE, <<>>), Arrival("GET", "/x", TRUE, <<>>),
              Arrival("POST", "/", TRUE, <<>>)}

\* what has reached the server for one request: the request line, the chunks
\* still to come and those delivered, whether the end event has fired, how the
\* fetch settled, and whether any of it happened while another request was
\* being handled
Delivery(connected, toSend, delivered, ended, fetched, overlapped) ==
    [connected |-> connected, toSend |-> toSend, delivered |-> delivered,
     ended |-> ended, fetched |-> fetched, overlapped |-> overlapped,
     arrival |-> Generate(toSend)]

ServerInit ==
    /\ pc = "serving"
    /\ requests = [r \in Requests |-> Absent]
    /\ \E arrivals \in [Requests -> ServerArrivals] :
          traffic = [r \in Requests |->
                        [Delivery(FALSE, arrivals[r].text, <<>>, FALSE, None, FALSE)
                            EXCEPT !.arrival = arrivals[r]]]
    /\ files \in FileStates
    /\ specInput = None
    /\ options = None
    /\ normalized = None
    /\ artifacts = None
    /\ CliIdle
    /\ ClientIdle
    /\ InsideParserIdle
    /\ SanitizerIdle

notServer == <<pc, insideParser, sanitizerVars, entryVars, cliVars, clientVars>>

\* another request is between its arrival and its response
Overlaps(r) == \E q \in Requests \ {r} : requests[q].pos \in {"receiving", "fetching"}

Stamp(delivery, r) == [delivery EXCEPT !.overlapped = @ \/ Overlaps(r)]

\* a POST /api/generate request arrives
Connect(r) ==
    /\ requests[r].pos = "absent"
    /\ requests' = HandleRequest(requests, r, traffic[r].arrival)
    /\ traffic' = [traffic EXCEPT ![r] = Stamp([@ EXCEPT !.connected = TRUE], r)]
    /\ UNCHANGED notServer

\* the next chunk of its body arrives
Data(r) ==
    /\ requests[r].pos = "receiving"
    /\ traffic[r].toSend # <<>>
    /\ requests' = OnData(requests, r, Head(traffic[r].toSend))
    /\ traffic' = [traffic EXCEPT ![r] =
                      Stamp([@ EXCEPT !.toSend = Tail(@),
                                      !.delivered = Append(@, Head(traffic[r].toSend))], r)]
    /\ UNCHANGED notServer

\* its body is complete
End(r) ==
    /\ requests[r].pos = "receiving"
    /\ traffic[r].toSend = <<>>
    /\ requests' = OnEnd(requests, r, files)
    /\ traffic' = [traffic EXCEPT ![r] = Stamp([@ EXCEPT !.ended = TRUE], r)]
    /\ UNCHANGED notServer

\* the fetch of the hosted spec settles (fetch and response.text())
FetchSettles(r) ==
    /\ requests[r].pos = "fetching"
    /\ \E outcome \in FetchOutcomes :
          /\ requests' = OnFetched(requests, r, outcome, files)
          /\ traffic' = [traffic EXCEPT ![r] = Stamp([@ EXCEPT !.fetched = Some(outcome)], r)]
    /\ UNCHANGED notServer

ServerNext ==
    \/ \E r \in Requests : Connect(r)
    \/ \E r \in Requests : Data(r)
    \/ \E r \in Requests : End(r)
    \/ \E r \in Requests : FetchSettles(r)

SpecServer == ServerInit /\ [][ServerNext]_vars

\* the data handler applied to the chunks in order
RECURSIVE Receive(_, _, _)
Receive(reqs, r, chunks) ==
    IF chunks = <<>> THEN reqs
    ELSE Receive(OnData(reqs, r, Head(chunks)), r, Tail(chunks))

AloneSettled(reqs, r, delivery) ==
    IF IsDefined(delivery.fetched) THEN OnFetched(reqs, r, delivery.fetched[1], files)
    ELSE reqs

AloneEnded(reqs, r, delivery) ==
    AloneSettled(IF delivery.ended THEN OnEnd(reqs, r, files) ELSE reqs, r, delivery)

\* the server handling request r alone: the same chunks, end event and fetch
\* outcome, and no other request
Alone(r) ==
    IF traffic[r].connected
    THEN AloneEnded(Receive(HandleRequest([q \in {r} |-> Absent], r, traffic[r].arrival), r,
                            traffic[r].delivered),
                    r, traffic[r])
    ELSE [q \in {r} |-> Absent]

(***************************************************************************)
(* C17: whatever the interleaving of the requests' events, the closure of  *)
(* every request (its body, its specInput, its parser and schema table,    *)
(* its output and its response) is what it is when the server handles      *)
(* that request alone with the same body and the same fetch outcome.       *)
(***************************************************************************)
C17_IndependentGenerations ==
    \A r \in Requests : requests[r] = Alone(r)[r]

\* two requests handled at the same time got different clients
C17_Witness ==
    /\ \A r \in Requests :
          /\ requests[r].pos = "responded"
          /\ requests[r].response[1].status = 200
          /\ traffic[r].overlapped
    /\ IsDefined(traffic["r1"].fetched)
    /\ requests["r1"].response[1].className # requests["r2"].response[1].className
    /\ requests["r1"].parser # requests["r2"].parser

(***************************************************************************)
(* The parser as generateClientArtifacts and the example generator use it: *)
(* one parser on the object the caller passed in, and calls of             *)
(* extractEndpoints, resolveSchema, getBaseUrl and ExampleGenerator's      *)
(* generate in any order and number.  The parser holds the caller's object *)
(* itself, not a copy, so spec is that object; specInput keeps what it was *)
(* when it was passed in.                                                  *)
(***************************************************************************)
ReadOnlyTables ==
    {<<>>,
     <<Entry(NameA, RefSchema(NameB)), Entry(NameB, PrimitiveSchema("string"))>>}

ReadOnlyServers ==
    {<<>>, <<[url |-> <<"h", "t", "t", "p", ":", "/", "/", "h">>]>>}

ReadOnlyPaths ==
    {d.paths : d \in {g \in GenerateDocuments : Len(g.paths) <= 1}}
        \cup {<<Entry(<<"/", "b">>, <<Entry("get", Operation(id, None))>>),
                Entry(<<"/", "a">>, <<Entry("post", Operation(other, None))>>)>> :
                 id \in GenerateOperationIds, other \in GenerateOperationIds}

ReadOnlyDocuments ==
    {[Document(paths) EXCEPT !.servers = servers,
                             !.components = Some([schemas |-> Some(table)])] :
        paths \in ReadOnlyPaths, servers \in ReadOnlyServers, table \in ReadOnlyTables}

ReadOnlyInit ==
    /\ pc = "constructed"
    /\ spec \in ReadOnlyDocuments
    /\ schemas = LoadSchemas(spec)
    /\ specInput = ObjectInput(spec)
    /\ endpoints = <<>>
    /\ resolved = None
    /\ NoRerun
    /\ NoSynthesis
    /\ options = None
    /\ files = NoFile
    /\ normalized = None
    /\ artifacts = None
    /\ SanitizerIdle
    /\ HostsIdle

\* what the caller has got from getBaseUrl and from the example generator
Collected(baseUrl, example) == [baseUrl |-> baseUrl, example |-> example]
CollectedSoFar == IF artifacts = None THEN Collected(None, None) ELSE artifacts

\* the position of the caller after one more extractEndpoints call
AfterExtraction ==
    IF pc = "constructed" THEN "extracted" ELSE "extracted again"

\* an extractEndpoints that sorts the paths of the document in place
ExtractEndpointsCall_SortInPlace ==
    /\ pc \in {"constructed", "extracted", "extracted again"}
    /\ spec' = IF Len(spec.paths) > 1 THEN [spec EXCEPT !.paths = SwapAdjacent(@, 1)]
               ELSE spec
    /\ endpoints' = ExtractEndpoints(spec')
    /\ previous' = IF pc = "constructed" THEN endpoints' ELSE previous
    /\ pc' = AfterExtraction
    /\ UNCHANGED <<schemas, resolved, reordering, generatorVars, outsideParser>>

\* parser.extractEndpoints(); the caller keeps the result of its first call
ExtractEndpointsCall ==
    /\ pc \in {"constructed", "extracted", "extracted again"}
    /\ endpoints' = ExtractEndpoints(spec)
    /\ previous' = IF pc = "constructed" THEN endpoints' ELSE previous
    /\ pc' = AfterExtraction
    /\ UNCHANGED <<spec, schemas, resolved, reordering, generatorVars, outsideParser>>

\* parser.resolveSchema(schema)
ResolveSchemaCall ==
    /\ pc \in {"constructed", "extracted", "extracted again"}
    /\ \E schema \in {RefSchema(NameA), RefSchema(NameC), PrimitiveSchema("integer")} :
           resolved' = [schema |-> schema, outcome |-> ResolveSchema(schemas, schema)]
    /\ UNCHANGED <<pc, spec, schemas, endpoints, rerunVars, generatorVars, outsideParser>>

\* parser.getBaseUrl()
GetBaseUrlCall ==
    /\ pc \in {"constructed", "extracted", "extracted again"}
    /\ artifacts' = [CollectedSoFar EXCEPT !.baseUrl = Some(GetBaseUrl(spec))]
    /\ UNCHANGED <<pc, parserVars, rerunVars, generatorVars, sanitizerVars, hostVars,
                   specInput, options, files, normalized>>

\* new ExampleGenerator(parser, className, outputFileName).generate(apiKey)
ExampleGenerateCall ==
    /\ pc \in {"constructed", "extracted", "extracted again"}
    /\ \E apiKey \in {None, Some(<<"s", "k">>)} :
          artifacts' = [CollectedSoFar EXCEPT
                           !.example = Some(ExampleGenerate(spec, GenerateClassName(spec),
                                                            DefaultClientFileName, apiKey))]
    /\ UNCHANGED <<pc, parserVars, rerunVars, generatorVars, sanitizerVars, hostVars,
                   specInput, options, files, normalized>>

ReadOnlyNext ==
    \/ ExtractEndpointsCall
    \/ ResolveSchemaCall
    \/ GetBaseUrlCall
    \/ ExampleGenerateCall

SpecReadOnly == ReadOnlyInit /\ [][ReadOnlyNext]_vars

(***************************************************************************)
(* C18: after any sequence of extractEndpoints, resolveSchema, getBaseUrl  *)
(* and example generator calls the object the caller passed in is what it  *)
(* was, the parser's schema table is the one loaded from it, and every     *)
(* extractEndpoints call after the first has returned what the first did.  *)
(***************************************************************************)
C18_NoInputMutation ==
    pc \in {"constructed", "extracted", "extracted again"} =>
        /\ spec = specInput.object
        /\ schemas = LoadSchemas(specInput.object)
        /\ pc = "extracted again" => endpoints = previous

\* all four operations have been called, extractEndpoints at least twice, on
\* a document with endpoints and schemas
C18_Witness ==
    /\ pc = "extracted again"
    /\ Len(endpoints) > 1
    /\ schemas # <<>>
    /\ resolved # None
    /\ artifacts # None
    /\ IsDefined(artifacts.baseUrl)
    /\ IsDefined(artifacts.example)

(***************************************************************************)
(* The usage example: generateClientArtifacts on documents of up to four   *)
(* operations with distinct operation ids, whose parameters are named like *)
(* an API key or not, in the query or elsewhere.                           *)
(***************************************************************************)
\* the parameters of an operation: none, or not named like a key, or a key
\* in another spelling, in another place, next to another one
ExampleParamLists ==
    {None,
     Some(<<Param(<<"q">>, "query", FALSE)>>),
     Some(<<Param(<<"k", "e", "y">>, "query", TRUE)>>),
     Some(<<Param(<<"A", "p", "i", "_", "K", "e", "y">>, "query", TRUE)>>),
     Some(<<Param(<<"k", "e", "y">>, "path", TRUE)>>),
     Some(<<Param(<<"k", "e", "y">>, "header", TRUE)>>),
     Some(<<Param(<<"k", "e", "y", "s">>, "query", FALSE)>>),
     Some(<<Param(<<"q">>, "query", FALSE), Param(<<"T", "O", "K", "E", "N">>, "query", TRUE)>>),
     Some(<<Param(<<"k", "e", "y">>, "query", TRUE), Param(<<"t", "o", "k", "e", "n">>, "query", TRUE)>>)}

\* those used in the documents of three and four operations
FewParamLists ==
    {None,
     Some(<<Param(<<"q">>, "query", FALSE)>>),
     Some(<<Param(<<"k", "e", "y">>, "query", TRUE)>>)}

OneOperation(method, id, parameters) == Entry(method, Operation(Some(id), parameters))

\* the documents: operations a, b on /a and c, d on /b, as many as there are
\* parameter lists
ExampleDocument(lists) ==
    Document(
        (IF Len(lists) >= 1
         THEN <<Entry(<<"/", "a">>,
                      <<OneOperation("get", <<"a">>, lists[1])>>
                          \o (IF Len(lists) >= 2
                              THEN <<OneOperation("post", <<"b">>, lists[2])>> ELSE <<>>))>>
         ELSE <<>>)
        \o (IF Len(lists) >= 3
            THEN <<Entry(<<"/", "b">>,
                         <<OneOperation("get", <<"c">>, lists[3])>>
                             \o (IF Len(lists) >= 4
                                 THEN <<OneOperation("post", <<"d">>, lists[4])>> ELSE <<>>))>>
            ELSE <<>>))

ExampleDocuments ==
    {ExampleDocument(lists) : lists \in SeqsUpTo(ExampleParamLists, 2)}
        \cup {ExampleDocument(lists) : lists \in [1..3 -> FewParamLists] \cup [1..4 -> FewParamLists]}

ExampleOptions ==
    {[includeExample |-> include, apiKey |-> key, outputFileName |-> None] :
        include \in {None, Some(TRUE), Some(FALSE)},
        key \in {None, Some(<<>>), Some(<<"s", "k">>)}}

ExampleInit ==
    /\ pc = "ready"
    /\ specInput \in {ObjectInput(d) : d \in ExampleDocuments}
    /\ files = NoFile
    /\ options \in ExampleOptions
    /\ normalized = None
    /\ artifacts = None
    /\ InsideParserIdle
    /\ SanitizerIdle
    /\ HostsIdle

SpecExample == ExampleInit /\ [][GenerateNext]_vars

\* generateClientArtifacts has returned
ArtifactsReturned == pc = "generated" /\ ~artifacts.threw

\* the two texts are equal when letter case is ignored
EqualIgnoringCase(a, b) ==
    /\ Len(a) = Len(b)
    /\ \A i \in DOMAIN a : ToLowerChar(a[i]) = ToLowerChar(b[i])

KeyName(name) == \E pattern \in ApiKeyPatterns : EqualIgnoringCase(name, pattern)

\* the parameters the claim calls API keys
ClaimedApiKey(param) == param.in = "query" /\ KeyName(param.name)

HasApiKey(endpoint) ==
    \E j \in DOMAIN endpoint.parameters : ClaimedApiKey(endpoint.parameters[j])

\* the key the caller gave, if it gave one that is not empty
GivenKey == IF Truthy(options.apiKey) THEN options.apiKey ELSE None

\* the snippet passes API_KEY for a query argument
PassesApiKey(snippet) ==
    \E j \in DOMAIN snippet.queryArgs : snippet.queryArgs[j].value = "API_KEY"

\* the example declares the API_KEY constant exactly when some endpoint has
\* a parameter the claim calls an API key; then the constant holds the
\* caller's key and the constructor gets no apiKey field, otherwise there is
\* no constant and the caller's key is the constructor's apiKey field
KeyThreadedByDetection ==
    LET example == artifacts.example[1]
        eps == artifacts.endpoints
    IN  /\ example.declaresApiKey <=> \E i \in DOMAIN eps : HasApiKey(eps[i])
        /\ IF example.declaresApiKey
           THEN /\ example.apiKeyConstant = GivenKey
                /\ example.constructorApiKey = None
           ELSE /\ example.apiKeyConstant = None
                /\ example.constructorApiKey = GivenKey
                /\ \A i \in DOMAIN example.calls : ~PassesApiKey(example.calls[i])

\* the name of the first parameter of the endpoint that the claim calls an
\* API key, if it has one
FirstKeyName(endpoint) ==
    LET keys == {j \in DOMAIN endpoint.parameters : ClaimedApiKey(endpoint.parameters[j])}
    IN  IF keys = {} THEN None
        ELSE Some(endpoint.parameters[CHOOSE j \in keys : \A k \in keys : j <= k].name)

(***************************************************************************)
(* C19 (as stated): a parameter is treated as an API key exactly when it   *)
(* is a query parameter named, case ignored, like an entry of the name     *)
(* list: the example threads the key by whether some endpoint has one, and *)
(* in every snippet exactly those query arguments are passed API_KEY.      *)
(***************************************************************************)
C19_EveryKeyParameter ==
    (ArtifactsReturned /\ IsDefined(artifacts.example)) =>
        /\ KeyThreadedByDetection
        /\ \A i \in DOMAIN artifacts.example[1].calls :
              \A j \in DOMAIN artifacts.example[1].calls[i].queryArgs :
                  artifacts.example[1].calls[i].queryArgs[j].value = "API_KEY"
                      <=> KeyName(artifacts.example[1].calls[i].queryArgs[j].name)

(***************************************************************************)
(* C19 (amended): the example threads the key by whether some endpoint has *)
(* a query parameter named, case ignored, like an entry of the name list;  *)
(* in a snippet, API_KEY is passed for the first such parameter of the     *)
(* endpoint (and for query parameters of the same name) and for no other   *)
(* argument.                                                               *)
(***************************************************************************)
C19_ApiKeyThreading ==
    (ArtifactsReturned /\ IsDefined(artifacts.example)) =>
        /\ KeyThreadedByDetection
        /\ \A i \in DOMAIN artifacts.example[1].calls :
              \A j \in DOMAIN artifacts.example[1].calls[i].queryArgs :
                  artifacts.example[1].calls[i].queryArgs[j].value = "API_KEY"
                      <=> FirstKeyName(artifacts.endpoints[i])
                              = Some(artifacts.example[1].calls[i].queryArgs[j].name)

\* a key was given and the endpoint takes the query parameters key and
\* token: API_KEY is passed for key, a placeholder for token
C19_Witness ==
    /\ ArtifactsReturned
    /\ IsDefined(artifacts.example)
    /\ artifacts.example[1].apiKeyConstant = Some(<<"s", "k">>)
    /\ artifacts.example[1].constructorApiKey = None
    /\ Len(artifacts.example[1].calls) = 1
    /\ artifacts.example[1].calls[1].queryArgs
           = <<[name |-> <<"k", "e", "y">>, value |-> "API_KEY"],
               [name |-> <<"t", "o", "k", "e", "n">>, value |-> "\"value\""]>>

\* the operation the snippet is for
SnippetOf(endpoint, snippet) == snippet.title = endpoint.operationId

(***************************************************************************)
(* C20: the example is produced unless includeExample is false (it is      *)
(* when the option is omitted); its snippets are those of the first        *)
(* min(3, n) extracted endpoints, in extraction order, and no other.       *)
(***************************************************************************)
C20_FirstThreeEndpoints ==
    ArtifactsReturned =>
        /\ IsDefined(artifacts.example) <=> options.includeExample # Some(FALSE)
        /\ IsDefined(artifacts.example) =>
              LET calls == artifacts.example[1].calls
                  eps == artifacts.endpoints
              IN  /\ Len(calls) = IF Len(eps) < 3 THEN Len(eps) ELSE 3
                  /\ \A i \in DOMAIN calls : SnippetOf(eps[i], calls[i])
                  /\ \A i \in DOMAIN eps : \A k \in DOMAIN calls :
                        SnippetOf(eps[i], calls[k]) => i = k

\* four endpoints, the option omitted: three snippets
C20_Witness ==
    /\ ArtifactsReturned
    /\ options.includeExample = None
    /\ Len(artifacts.endpoints) = 4
    /\ IsDefined(artifacts.example)
    /\ Len(artifacts.example[1].calls) = 3

(***************************************************************************)
(* getSchemas: the parser hands out its schema Map itself, so what a       *)
(* caller does with the Map it got is done to parser.schemas.  The caller  *)
(* may call set, delete and clear on it, and resolveSchema on the parser.  *)
(***************************************************************************)
\* Map.prototype.delete
MapDelete(map, key) ==
    LET Other(entry) == entry.key # key
    IN  SelectSeq(map, Other)

\* the definitions a caller stores
CallerDefinitions == {PrimitiveSchema("integer"), RefSchema(NameC)}

SchemaAccessInit ==
    /\ pc = "parser built"
    /\ \E components \in ComponentsChoices :
           spec = [Document(<<>>) EXCEPT !.components = components]
    /\ schemas = LoadSchemas(spec)
    /\ endpoints = <<>>
    /\ resolved = None
    /\ NoRerun
    /\ NoSynthesis
    /\ OutsideParserIdle

\* parser.getSchemas(): `return this.schemas`
GetSchemasCall ==
    /\ pc = "parser built"
    /\ pc' = "map handed out"
    /\ UNCHANGED <<parserVars, rerunVars, generatorVars, outsideParser>>

\* the caller calls set on the Map it was given
CallerSets ==
    /\ pc = "map handed out"
    /\ \E name \in {NameA, NameB, NameC}, definition \in CallerDefinitions :
          schemas' = MapSet(schemas, name, definition)
    /\ UNCHANGED <<pc, spec, endpoints, resolved, rerunVars, generatorVars, outsideParser>>

\* the caller calls delete on the Map it was given
CallerDeletes ==
    /\ pc = "map handed out"
    /\ \E name \in {NameA, NameB} : schemas' = MapDelete(schemas, name)
    /\ UNCHANGED <<pc, spec, endpoints, resolved, rerunVars, generatorVars, outsideParser>>

\* the caller calls clear on the Map it was given
CallerClears ==
    /\ pc = "map handed out"
    /\ schemas' = <<>>
    /\ UNCHANGED <<pc, spec, endpoints, resolved, rerunVars, generatorVars, outsideParser>>

\* parser.resolveSchema(schema), before or after the Map was handed out
ResolveSchemaLater ==
    /\ pc \in {"parser built", "map handed out"}
    /\ \E schema \in {RefSchema(NameA), RefSchema(NameB), RefSchema(NameC),
                      PrimitiveSchema("string")} :
           resolved' = [schema |-> schema, outcome |-> ResolveSchema(schemas, schema)]
    /\ UNCHANGED <<pc, spec, schemas, endpoints, rerunVars, generatorVars, outsideParser>>

SchemaAccessNext ==
    \/ GetSchemasCall
    \/ CallerSets
    \/ CallerDeletes
    \/ CallerClears
    \/ ResolveSchemaLater

SpecSchemaAccess == SchemaAccessInit /\ [][SchemaAccessNext]_vars

(***************************************************************************)
(* C21: whatever a caller has done with the Map getSchemas returned, a     *)
(* resolveSchema call on the parser returns what it returns on the table   *)
(* the parser loaded from its document.                                    *)
(***************************************************************************)
C21_ReadOnlySchemas ==
    (pc \in {"parser built", "map handed out"} /\ resolved # None) =>
        resolved.outcome = ResolveSchema(LoadSchemas(spec), resolved.schema)

(***************************************************************************)
(* The HTTP front end seen from its clients: what a request carried, and   *)
(* what became of it.                                                      *)
(***************************************************************************)
\* the end event of the request has fired: its body is fully received
FullyReceived(r) == traffic[r].ended

Responded(r) == requests[r].pos = "responded"

\* generateClientArtifacts was called for the request
GeneratorInvoked(r) == IsDefined(requests[r].output)

\* the object the request's body text stands for, if it is one
Posted(r) == ParseBody(traffic[r].arrival.text)

NamedTypes == {"openai", "github", "stripe", "google", "aws", "azure", "slack", "discord"}

OpenAiPrefix == <<"s", "k", "-">>
GitHubPrefix == <<"g", "h", "p", "_">>
StripePrefixes == {<<"s", "k", "_", "l", "i", "v", "e", "_">>, <<"s", "k", "_", "t", "e", "s", "t", "_">>}

HasPrefix(key, prefixes) ==
    IsString(key) /\ \E prefix \in prefixes : IsPrefixOf(prefix, key)

\* the posted object selects a spec source
SelectsSource(payload) ==
    \/ \E type \in NamedTypes : payload.apiType = Some(type)
    \/ /\ payload.apiType = Some("auto")
       /\ IsDefined(payload.apiKey)
       /\ HasPrefix(payload.apiKey[1], {OpenAiPrefix, GitHubPrefix} \cup StripePrefixes)
    \/ payload.apiType = Some("custom") /\ Truthy(payload.customUrl)

KeyRequired == ErrorResponse(400, "API key is required")

UsesBuiltIn(r, type) ==
    /\ requests[r].specInput = Some(ObjectInput(BuiltInSpec(type)))
    /\ requests[r].fetching = None

UsesHosted(r, name) == requests[r].fetching = Some(ApiSpecs[name])

UsesUrl(r, url) ==
    /\ requests[r].specInput = Some(StringInput(url))
    /\ requests[r].fetching = None

UsesNamed(r, type) ==
    IF type \in {"github", "stripe"} THEN UsesHosted(r, type) ELSE UsesBuiltIn(r, type)

\* the request was received whole and carries an API key
Keyed(r) == FullyReceived(r) /\ IsDefined(Posted(r)) /\ Truthy(Posted(r)[1].apiKey)

LiveCompanions ==
    {Generate(BodyText(Payload(Some(<<"g", "h", "p", "_", "1">>), Some("auto"), None))),
     Generate(BodyText(Payload(Some(<<"k">>), Some("custom"), Some(ServerFile)))),
     Arrival("GET", "/", FALSE, <<>>), Arrival("POST", "/", TRUE, <<>>)}

ServerLiveInit == ServerInit /\ traffic["r2"].arrival \in LiveCompanions

\* weak fairness of FetchSettles(r), which is enabled exactly while the
\* request is at its await
FetchIsFair(r) ==
    []<>(requests[r].pos # "fetching") \/ []<><<FetchSettles(r)>>_vars

SpecServerLive ==
    ServerLiveInit /\ [][ServerNext]_vars /\ \A r \in Requests : FetchIsFair(r)

ResponseStatuses == {200, 400, 404, 500}

\* the head of the response was written once and the response ended once
AnsweredOnce(r) ==
    /\ Len(requests[r].heads) = 1
    /\ requests[r].ends = 1
    /\ requests[r].heads[1] \in ResponseStatuses
    /\ requests[r].response[1].status = requests[r].heads[1]

NothingSent(r) == requests[r].heads = <<>> /\ requests[r].ends = 0

MalformedBody(r) == FullyReceived(r) /\ Posted(r) = None

FetchFailed(r) == IsDefined(traffic[r].fetched) /\ traffic[r].fetched[1].kind = "rejected"

GeneratorThrew(r) == GeneratorInvoked(r) /\ requests[r].output[1].threw

\* one response at most, and 500 for the three failures
OneResponse ==
    \A r \in Requests :
       /\ IF Responded(r) THEN AnsweredOnce(r) ELSE NothingSent(r)
       /\ (MalformedBody(r) \/ FetchFailed(r) \/ GeneratorThrew(r)) =>
              Responded(r) /\ requests[r].heads = <<500>>

(***************************************************************************)
(* C24: every request whose body is fully received gets exactly one        *)
(* response: writeHead is called once and end once, with status 200, 400,  *)
(* 404 or 500, on every path through the handler; a malformed JSON body,   *)
(* a failed spec fetch and an exception of the generator each give 500.    *)
(***************************************************************************)
C24_ExactlyOneResponse ==
    /\ []OneResponse
    /\ \A r \in Requests : FullyReceived(r) ~> Responded(r)

\* a failed fetch and a throwing generator were each answered 500, once
C24_Witness ==
    /\ FetchFailed("r1") /\ AnsweredOnce("r1") /\ requests["r1"].heads = <<500>>
    /\ GeneratorThrew("r2") /\ AnsweredOnce("r2") /\ requests["r2"].heads = <<500>>
    /\ FullyReceived("r1") /\ FullyReceived("r2")

(***************************************************************************)
(* The CLI's interactive mode: the two prompts, generateOutputFileName,    *)
(* generateAndWrite                                                        *)
(***************************************************************************)
ClientSuffix == <<"-", "c", "l", "i", "e", "n", "t", ".", "t", "s">>
DefaultName == <<"a", "p", "i">>

\* input.split(/[/\\]/)
SplitPath(input) ==
    Split([i \in DOMAIN input |-> IF input[i] = "\\" THEN "/" ELSE input[i]], "/")

\* apiName.toLowerCase().replace(/[^a-z0-9]/g, '-')
CleanName(apiName) ==
    LET lower == ToLowerCase(apiName)
    IN  [i \in DOMAIN lower |->
            IF lower[i] \in LowerSet \cup DigitChars THEN lower[i] ELSE "-"]

\* the url branch: the last but one label of the host name
DomainOf(hostParts) ==
    IF Len(hostParts) > 1 THEN hostParts[Len(hostParts) - 1] ELSE DefaultName

\* the file branch: input.split(/[/\\]/).pop() || 'api'
FileNameOf(parts) ==
    IF parts[Len(parts)] = <<>> THEN DefaultName ELSE parts[Len(parts)]

\* a file branch that always appends the suffix
GenerateOutputFileName_Append(input, apiName) ==
    IF IsUrl(input)
    THEN DomainOf(Split(ParseUrl(input).host, ".")) \o ClientSuffix
    ELSE IF Truthy(apiName)
    THEN CleanName(apiName[1]) \o ClientSuffix
    ELSE FileNameOf(SplitPath(input)) \o ClientSuffix

\* generateOutputFileName
GenerateOutputFileName(input, apiName) ==
    IF IsUrl(input)
    THEN DomainOf(Split(ParseUrl(input).host, ".")) \o ClientSuffix
    ELSE IF Truthy(apiName)
    THEN CleanName(apiName[1]) \o ClientSuffix
    ELSE ReplaceText(FileNameOf(SplitPath(input)), <<".", "j", "s", "o", "n">>, ClientSuffix)

\* what the user may answer to the first prompt (trimmed)
PromptInputs ==
    {<<>>,
     <<"h", "t", "t", "p", ":", "/", "/", "h", "/", "a", "?", "k", "e", "y", "=", "[", "t", "]">>,
     <<"h", "t", "t", "p", "s", ":", "/", "/", "a", ".", "b", "/", "c">>,
     <<"a", ".", "j", "s", "o", "n">>,
     <<"d", "/", "a", ".", "j", "s", "o", "n">>,
     <<"d", "\\", "a", ".", "j", "s", "o", "n">>,
     <<"a", ".", "n", "z">>,
     <<"d", "/", "a">>,
     <<"A", ".", "J", "S", "O", "N">>}

\* the answers to the two prompts; no output file is chosen yet
PromptAnswers ==
    {[input |-> input, outputFile |-> <<>>, apiKey |-> Some(apiKey),
      failingWrite |-> failingWrite] :
        input \in PromptInputs, apiKey \in {<<>>, <<"s", "k">>}, failingWrite \in 0..2}

InteractiveInit ==
    /\ pc = "prompt"
    /\ cliArgs \in PromptAnswers
    /\ files \in FileStates
    /\ writes = <<>>
    /\ exitCode = None
    /\ ClientIdle
    /\ ServerIdle
    /\ specInput = None
    /\ options = None
    /\ normalized = None
    /\ artifacts = None
    /\ InsideParserIdle
    /\ SanitizerIdle

\* interactiveMode with an empty first answer: process.exit(1)
RefuseEmptyInput ==
    /\ pc = "prompt"
    /\ cliArgs.input = <<>>
    /\ exitCode' = Some(1)
    /\ pc' = "cli done"
    /\ UNCHANGED <<cliArgs, writes, entryVars, insideParser, sanitizerVars, clientVars,
                   serverVars>>

\* interactiveMode: the output file is chosen from the input, an empty key
\* becomes undefined
CallInteractiveMode ==
    /\ pc = "prompt"
    /\ cliArgs.input # <<>>
    /\ cliArgs' = [cliArgs EXCEPT
                      !.outputFile = GenerateOutputFileName(cliArgs.input, None),
                      !.apiKey = IF Truthy(@) THEN @ ELSE None]
    /\ GenerateAndWrite(cliArgs')

InteractiveNext == RefuseEmptyInput \/ CallInteractiveMode

SpecInteractive == InteractiveInit /\ [][InteractiveNext]_vars

\* interactive mode ran on the name of a file and generation succeeded
GeneratedFromFile ==
    /\ pc = "cli done"
    /\ cliArgs.input # <<>>
    /\ ~IsUrl(cliArgs.input)
    /\ ~artifacts.threw

(***************************************************************************)
(* C25: in interactive mode, whenever generation from an input file        *)
(* succeeds, the output file chosen by generateOutputFileName is not the   *)
(* input path, and no write goes to the input path.                        *)
(***************************************************************************)
C25_OutputIsNotInput ==
    GeneratedFromFile =>
        /\ cliArgs.outputFile # cliArgs.input
        /\ \A i \in DOMAIN writes : writes[i].file # cliArgs.input

\* the content a file holds after the writes, if any of them went to it
LastWrittenTo(file) ==
    LET to == {i \in DOMAIN writes : writes[i].file = file}
    IN  IF to = {} THEN None
        ELSE Some(writes[CHOOSE i \in to : \A j \in to : j <= i].content)

\* generateAndWrite returned after writing the client and the example
WroteBoth ==
    /\ pc = "cli done"
    /\ exitCode = Some(0)
    /\ Len(writes) = 2

(***************************************************************************)
(* C26: generateAndWrite writes the client file first and the example      *)
(* file second, to a path that differs from the client's, whatever the     *)
(* output file name; after a successful run the client file holds the      *)
(* client source.                                                          *)
(***************************************************************************)
C26_ExampleBesideClient ==
    WroteBoth =>
        /\ writes[1] = Write(cliArgs.outputFile, artifacts.client)
        /\ writes[2].content = artifacts.example
        /\ writes[2].file # writes[1].file
        /\ LastWrittenTo(cliArgs.outputFile) = Some(artifacts.client)

(***************************************************************************)
(* The transport of the generated client, attempt by attempt               *)
(***************************************************************************)
\* what the record tells of one attempt: whether it was made, the exception
\* that ended it if one did, how many response interceptors ran in it
AttemptRecord(attempt) ==
    LET at == {k \in DOMAIN events : events[k].attempt = attempt /\ events[k].type # "wait"
                                     /\ events[k].type # "request interceptor"}
        failed == {k \in at : events[k].type = "failure"}
    IN  [made    |-> \E j \in at : events[j].type = "fetch",
         failure |-> IF failed = {} THEN None ELSE events[CHOOSE k \in failed : TRUE].error,
         applied |-> Cardinality({k \in at : events[k].type = "response interceptor"})]

FailureOf(attempt) == AttemptRecord(attempt).failure

\* the attempt was made and is over
AttemptOver(attempt) == attempt.made /\ (CallDone \/ IsDefined(attempt.failure))

\* the attempt received a response, and nothing in origins went wrong with it
Received(attempt, origins) ==
    /\ attempt.made
    /\ IsDefined(attempt.failure) => attempt.failure[1].origin \notin origins

\* no response with a success status
NoSuccessStatus == {"network", "http"}

\* no response with a success status and a body that response.json() reads
NoBodyRead == {"network", "http", "json"}

RequestApplications == {i \in DOMAIN events : events[i].type = "request interceptor"}

\* the request interceptors run once, before the first attempt (they are
\* the first entries of the record), and every attempt sends what they made
\* of the request
RequestInterceptedOnce(applications, list) ==
    /\ applications = 1 .. Cardinality(applications)
    /\ \A i \in applications :
          /\ events[i].attempt = 0
          /\ \A k \in applications : events[k].tag = events[i].tag => k = i
    /\ \A j \in Fetches :
          /\ Cardinality(applications) = Len(list)
          /\ \A i \in applications : events[i].tag = list[i]
          /\ events[j].marks = list

\* an exception ends the attempt as a network failure does: the timer of the
\* backoff and the next attempt, or the end of the call after the last one
RetriedLikeNetworkFailure(k) ==
    IF events[k].attempt < apiClient[1].maxRetries
    THEN /\ k + 1 \in DOMAIN events
         /\ events[k + 1].type = "wait"
         /\ events[k + 1].delay = Doubled(apiClient[1].retryDelay, events[k].attempt)
         /\ k + 2 \in DOMAIN events =>
                /\ events[k + 2].type = "fetch"
                /\ events[k + 2].attempt = events[k].attempt + 1
         /\ CallDone => k + 2 \in DOMAIN events
    ELSE /\ k = Len(events)
         /\ CallDone
         /\ IsDefined(call[1].thrown)
         /\ call[1].thrown[1].origin = events[k].error[1].origin

FailuresRetried ==
    \A k \in Failures :
        /\ RetriedLikeNetworkFailure(k)
        /\ events[k].error[1].origin = "response interceptor" =>
               /\ events[k - 1].type = "response interceptor"
               /\ events[k - 1].attempt = events[k].attempt

\* the response interceptors run in the attempt if it received a response
\* with which nothing in origins went wrong, and do not if it did not
ResponseInterceptedIn(attempt, origins, list) ==
    /\ attempt.applied > 0 => Received(attempt, origins)
    /\ (Received(attempt, origins) /\ AttemptOver(attempt)) =>
           IF attempt.failure = None THEN attempt.applied = Len(list)
           ELSE list # <<>> => attempt.applied > 0

\* C27 as stated: the request interceptors run once per call, before the
\* first attempt, and every attempt sends the same intercepted request; the
\* response interceptors run in each attempt that receives a success status;
\* an exception of a response interceptor is a failed attempt, retried like
\* a network failure.
C27_OnEverySuccessStatus ==
    IsDefined(call) =>
        /\ RequestInterceptedOnce(RequestApplications, apiClient[1].requestInterceptors)
        /\ FailuresRetried
        /\ \A attempt \in 0 .. MaxRetries :
              ResponseInterceptedIn(AttemptRecord(attempt), NoSuccessStatus,
                                    apiClient[1].responseInterceptors)

(***************************************************************************)
(* C27: the request interceptors run once per call, before the first       *)
(* attempt, and every attempt sends the same intercepted request; the      *)
(* response interceptors run in each attempt that receives a success       *)
(* status and a body that response.json() reads, and in no other; an       *)
(* exception of a response interceptor is a failed attempt, retried like a *)
(* network failure.                                                        *)
(***************************************************************************)
C27_InterceptorsAndRetries ==
    IsDefined(call) =>
        /\ RequestInterceptedOnce(RequestApplications, apiClient[1].requestInterceptors)
        /\ FailuresRetried
        /\ \A attempt \in 0 .. MaxRetries :
              ResponseInterceptedIn(AttemptRecord(attempt), NoBodyRead,
                                    apiClient[1].responseInterceptors)

\* a call with a request interceptor whose first attempt read a body and
\* ended in a response interceptor's exception, whose second received a
\* body that is not JSON, and whose third returned data
C27_Witness ==
    /\ CallDone
    /\ call[1].thrown = None
    /\ apiClient[1].requestInterceptors # <<>>
    /\ Cardinality(Fetches) = 3
    /\ FailureOf(0) # None /\ FailureOf(0)[1].origin = "response interceptor"
    /\ FailureOf(1) # None /\ FailureOf(1)[1].origin = "json"
    /\ Applications("response interceptor", 1) = {}
    /\ Applications("response interceptor", 2) # {}
    /\ Cardinality(RequestApplications) = Len(apiClient[1].requestInterceptors)

\* the endpoints that have a query parameter named like an API key
KeyEndpoints == {i \in DOMAIN artifacts.endpoints : HasApiKey(artifacts.endpoints[i])}

(***************************************************************************)
(* C28: in every generated example, if a call snippet passes the           *)
(* identifier API_KEY as a query argument then the example declares the    *)
(* API_KEY constant, wherever in the endpoint list the key parameter is.   *)
(***************************************************************************)
C28_ApiKeyDeclared ==
    (ArtifactsReturned /\ IsDefined(artifacts.example)) =>
        /\ (\E i \in DOMAIN artifacts.example[1].calls :
                PassesApiKey(artifacts.example[1].calls[i])) =>
               artifacts.example[1].declaresApiKey
        /\ KeyEndpoints # {} => artifacts.example[1].declaresApiKey

\* of four endpoints only the third has a key parameter: its snippet passes
\* API_KEY and the constant is declared
C28_Witness ==
    /\ ArtifactsReturned
    /\ IsDefined(artifacts.example)
    /\ Len(artifacts.endpoints) = 4
    /\ KeyEndpoints = {3}
    /\ PassesApiKey(artifacts.example[1].calls[3])
    /\ artifacts.example[1].declaresApiKey

\* normalizeSpec has made a document of an http or https URL
UrlSynthesized ==
    /\ pc = "normalized"
    /\ specInput.type = "string"
    /\ IsUrl(specInput.text)
    /\ ~normalized.threw

\* the non-empty segments of the URL's path, and its origin
SegmentsOf(text) == PathPartsOf(ParseUrl(text).pathname)

OriginOf(text) == ParseUrl(text).protocol \o <<"/", "/">> \o ParseUrl(text).host

\* the server base URL followed by the path template
RequestUrlOf(document) == document.servers[1].url \o document.paths[1].key

(***************************************************************************)
(* C29: for an http or https URL, the synthesized server base URL followed *)
(* by the synthesized path template is the URL's origin, a slash, and the  *)
(* non-empty path segments joined by single slashes, however many segments *)
(* there are.                                                              *)
(***************************************************************************)
C29_UrlRoundTrip ==
    UrlSynthesized =>
        RequestUrlOf(normalized.value[1])
            = OriginOf(specInput.text) \o <<"/">> \o Join(SegmentsOf(specInput.text), "/")

(***************************************************************************)
(* C30: sanitizeMethodName is idempotent: sanitizing a name that came out  *)
(* of sanitizeMethodName returns it unchanged.                             *)
(***************************************************************************)
C30_SanitizeIdempotent ==
    /\ pc = "sanitized again" => methodName = rawName
    /\ pc = "sanitized" => SanitizeMethodName(methodName) = methodName

\* a name that the first pass changed in every step came back unchanged
\* from the second
C30_Witness ==
    /\ pc = "sanitized again"
    /\ rawName = <<"_", "1", "a", "_", "b", "_">>
    /\ methodName = <<"_", "1", "a", "_", "b", "_">>
====
